---- MODULE Spec2Model ----
(***************************************************************************)
(* A model of the phantom NES core: the PPU state machine                  *)
(* (src/nes/ppu), the memory bus (src/nes/bus.rs) and the CPU run loop     *)
(* (src/nes/cpu.rs).  Each Rust method is an operator from the receiver's  *)
(* record to the record after the call (and the value returned); the      *)
(* actions apply these operators to the state variables.                   *)
(***************************************************************************)
EXTENDS Integers, Sequences, FiniteSets, TLC

VARIABLES
    ppu,        \* the Ppu struct (owned by the Bus)
    cpu_ram,    \* Bus.cpu_ram
    bus_cycles, \* Bus.cycles
    frames,     \* number of times Bus.game_loop_callback has been invoked
    fault,      \* TRUE once the program has panicked (execution aborted)
    cpu,        \* the Cpu struct's registers
    run,        \* position of Cpu::run_with_callback: "top", "fetch", "halted"
    prog,       \* which PRG ROM image the cartridge holds
    overflow_checks, \* the build: TRUE when integer overflow panics (debug),
                \* FALSE when it wraps (release)
    last,       \* the last call made: [op, arg, ret]
    dots,       \* history: sum of the dot counts handed to Ppu::tick
    hist,       \* history: register writes since the last Status read
    addr_parity, \* history: parity of Address writes since power-on / Status read
    accesses,   \* history: number of PPUDATA, OAM and bus accesses made
    steps,      \* history: number of loop iterations of Cpu::run_with_callback
    interrupted \* history: the registers and the RAM at the last NMI dispatch

vars == <<ppu, cpu_ram, bus_cycles, frames, fault, cpu, run, prog,
          overflow_checks, last, dots, hist, addr_parity, accesses, steps,
          interrupted>>

(***************************************************************************)
(* Bounds of the model.                                                    *)
(***************************************************************************)
\* The bus is ticked through one frame while its registers are accessed
MaxLatchCycles == 29920
\* Ticks are taken while the dots handed to the PPU stay within MaxDots
\* (one frame is 341 * 262 = 89342 dots).
MaxDots == 90000
\* Bus ticks and CPU instructions are taken while Bus.cycles stays within
\* MaxBusCycles (one frame is 89342 dots, that is 29781 CPU cycles).
MaxBusCycles == 60000
\* The same for the runs that overflow the u8 product of Bus::tick.
MaxOverflowCycles == 600
\* PPUDATA accesses made on the PPU directly
MaxDataAccesses == 2
\* accesses made through the Bus
MaxBusAccesses == 2
\* loop iterations of Cpu::run_with_callback for the programs in RAM
MaxSteps == 16
\* loop iterations for the programs that push in a loop
MaxPushSteps == 530
\* a halted program is reset and run again while fewer iterations were made
MaxRerunSteps == 6

(***************************************************************************)
(* Bytes, words and bit flags.                                             *)
(***************************************************************************)
Byte == 0..255

RECURSIVE BitAnd(_, _)
BitAnd(a, b) ==
    IF a = 0 \/ b = 0 THEN 0
    ELSE (a % 2) * (b % 2) + 2 * BitAnd(a \div 2, b \div 2)

RECURSIVE BitXor(_, _)
BitXor(a, b) ==
    IF a = 0 THEN b
    ELSE IF b = 0 THEN a
    ELSE ((a + b) % 2) + 2 * BitXor(a \div 2, b \div 2)

\* bitflags: contains / insert / remove / set of a single-bit flag (a power
\* of two)
Contains(bits, flag) == (bits \div flag) % 2 = 1
Insert(bits, flag) == IF Contains(bits, flag) THEN bits ELSE bits + flag
Remove(bits, flag) == IF Contains(bits, flag) THEN bits - flag ELSE bits
SetFlag(bits, flag, on) == IF on THEN Insert(bits, flag) ELSE Remove(bits, flag)

\* A zero-initialised byte array ([0; N]): the function from the indices that
\* hold a non-zero byte to that byte; every other index holds 0.
ArrayNew == [i \in {} |-> 0]
ArrayGet(a, i) == IF i \in DOMAIN a THEN a[i] ELSE 0
ArraySet(a, i, v) ==
    IF v = 0
    THEN (IF i \in DOMAIN a THEN [j \in DOMAIN a \ {i} |-> a[j]] ELSE a)
    ELSE (i :> v) @@ a

\* Option<u8>: None and Some(1)
None == <<>>
Some(x) == <<x>>

(***************************************************************************)
(* PPU registers.                                                          *)
(***************************************************************************)
SPRITE_ZERO_HIT == 64
VBLANK_STARTED == 128
GENERATE_NMI == 128
VRAM_ADDR_INCREMENT == 4

\* StatusRegister
has_vblank_started(status) == Contains(status, VBLANK_STARTED)
set_vblank_started_flag(status, on) == SetFlag(status, VBLANK_STARTED, on)
set_sprite_zero_hit_flag(status, on) == SetFlag(status, SPRITE_ZERO_HIT, on)
reset_vblank_status_flag(status) == Remove(status, VBLANK_STARTED)

\* ControlRegister
has_vblank_nmi_flag(ctrl) == Contains(ctrl, GENERATE_NMI)

\* ControlRegister::vram_address_increment that ignores the increment bit
VramIncrementAlwaysOne(ctrl) == 1

\* ControlRegister::vram_address_increment
vram_address_increment(ctrl) ==
    IF ~Contains(ctrl, VRAM_ADDR_INCREMENT) THEN 1 ELSE 32

\* AddressRegister: value is (higher byte, lower byte)
AddressRegisterNew == [value |-> <<0, 0>>, hi_ptr |-> TRUE]

get_address(reg) == reg.value[1] * 256 + reg.value[2]

AddressSet(reg, data) ==
    [reg EXCEPT !.value = <<data \div 256, data % 256>>]

AddressMirror(reg) ==
    IF get_address(reg) > 16383
    THEN AddressSet(reg, BitAnd(get_address(reg), 16383))
    ELSE reg

AddressUpdateNoToggle(reg, data) ==
    AddressMirror(IF reg.hi_ptr THEN [reg EXCEPT !.value[1] = data]
                                ELSE [reg EXCEPT !.value[2] = data])

AddressUpdate(reg, data) ==
    LET r1 == IF reg.hi_ptr THEN [reg EXCEPT !.value[1] = data]
                            ELSE [reg EXCEPT !.value[2] = data]
        r2 == AddressMirror(r1)
    IN [r2 EXCEPT !.hi_ptr = ~r2.hi_ptr]

AddressResetLatch(reg) == [reg EXCEPT !.hi_ptr = TRUE]

\* AddressRegister::increment without the mirror-down above 0x3FFF
AddressIncrementNoMirror(reg, inc) ==
    LET previous_lo == reg.value[2]
        lo == (previous_lo + inc) % 256
    IN [reg EXCEPT !.value[2] = lo,
                   !.value[1] = IF previous_lo > lo THEN (@ + 1) % 256 ELSE @]

\* AddressRegister::increment: wrapping add on the low byte, carry into the
\* high byte, mirror down above 0x3FFF
AddressIncrement(reg, inc) ==
    LET previous_lo == reg.value[2]
        lo == (previous_lo + inc) % 256
    IN AddressMirror(
           [reg EXCEPT !.value[2] = lo,
                       !.value[1] = IF previous_lo > lo
                                    THEN (@ + 1) % 256 ELSE @])

\* ScrollRegister
ScrollRegisterNew == [scroll_x |-> 0, scroll_y |-> 0, latch |-> FALSE]

ScrollWrite(reg, data) ==
    LET r1 == IF ~reg.latch THEN [reg EXCEPT !.scroll_x = data]
                            ELSE [reg EXCEPT !.scroll_y = data]
    IN [r1 EXCEPT !.latch = ~r1.latch]

ScrollResetLatch(reg) == [reg EXCEPT !.latch = FALSE]

(***************************************************************************)
(* The PPU.                                                                *)
(***************************************************************************)
DotsPerScanline == 341
VBlankScanline == 241
ScanlinesPerFrame == 262

\* sizes of the PPU's memories
VramLen == 2048
OamLen == 256
PaletteLen == 32
\* the cartridge's CHR ROM: 8 KiB, byte i an arbitrary fixed pattern
ChrRomLen == 8192
ChrRomAt(i) == (7 * i + 1) % 256

MirroringModes == {"Horizontal", "Vertical", "FourScreen"}

PpuNew ==
    [ vram            |-> ArrayNew,
      mirroring_mode  |-> "Horizontal",
      addr_register   |-> AddressRegisterNew,
      ctrl_register   |-> 0,
      mask_register   |-> 0,
      scroll_register |-> ScrollRegisterNew,
      status_register |-> 0,
      oam_addr_register |-> 0,
      oam_data_register |-> ArrayNew,
      palette_table   |-> ArrayNew,
      internal_data_buffer |-> 0,
      scanline        |-> 0,
      cycles          |-> 0,
      nmi_interrupt   |-> None ]

\* Ppu::tick with the frame wrap one scanline late
PpuTickLateWrap(p, d) ==
    LET c1 == p.cycles + d IN
    IF c1 >= DotsPerScanline
    THEN LET p1 == [p EXCEPT !.cycles = c1 - DotsPerScanline,
                             !.scanline = p.scanline + 1]
             p2 == IF p1.scanline = VBlankScanline
                   THEN [p1 EXCEPT
                           !.status_register =
                               set_sprite_zero_hit_flag(
                                   set_vblank_started_flag(@, TRUE), FALSE),
                           !.nmi_interrupt =
                               IF has_vblank_nmi_flag(p1.ctrl_register)
                               THEN Some(1) ELSE @]
                   ELSE p1
         IN IF p2.scanline > ScanlinesPerFrame
            THEN [ppu |-> [p2 EXCEPT
                             !.scanline = 0,
                             !.nmi_interrupt = None,
                             !.status_register =
                                 reset_vblank_status_flag(
                                     set_sprite_zero_hit_flag(@, FALSE))],
                  ret |-> TRUE]
            ELSE [ppu |-> p2, ret |-> FALSE]
    ELSE [ppu |-> [p EXCEPT !.cycles = c1], ret |-> FALSE]

\* Ppu::tick that latches the NMI at scanline 241 whatever Control says
PpuTickAlwaysNmi(p, d) ==
    LET c1 == p.cycles + d IN
    IF c1 >= DotsPerScanline
    THEN LET p1 == [p EXCEPT !.cycles = c1 - DotsPerScanline,
                             !.scanline = p.scanline + 1]
             p2 == IF p1.scanline = VBlankScanline
                   THEN [p1 EXCEPT
                           !.status_register =
                               set_sprite_zero_hit_flag(
                                   set_vblank_started_flag(@, TRUE), FALSE),
                           !.nmi_interrupt = Some(1)]
                   ELSE p1
         IN IF p2.scanline >= ScanlinesPerFrame
            THEN [ppu |-> [p2 EXCEPT
                             !.scanline = 0,
                             !.nmi_interrupt = None,
                             !.status_register =
                                 reset_vblank_status_flag(
                                     set_sprite_zero_hit_flag(@, FALSE))],
                  ret |-> TRUE]
            ELSE [ppu |-> p2, ret |-> FALSE]
    ELSE [ppu |-> [p EXCEPT !.cycles = c1], ret |-> FALSE]

\* Ppu::tick that keeps the NMI latch across the frame wrap
PpuTickKeepNmi(p, d) ==
    LET c1 == p.cycles + d IN
    IF c1 >= DotsPerScanline
    THEN LET p1 == [p EXCEPT !.cycles = c1 - DotsPerScanline,
                             !.scanline = p.scanline + 1]
             p2 == IF p1.scanline = VBlankScanline
                   THEN [p1 EXCEPT
                           !.status_register =
                               set_sprite_zero_hit_flag(
                                   set_vblank_started_flag(@, TRUE), FALSE),
                           !.nmi_interrupt =
                               IF has_vblank_nmi_flag(p1.ctrl_register)
                               THEN Some(1) ELSE @]
                   ELSE p1
         IN IF p2.scanline >= ScanlinesPerFrame
            THEN [ppu |-> [p2 EXCEPT
                             !.scanline = 0,
                             !.status_register =
                                 reset_vblank_status_flag(
                                     set_sprite_zero_hit_flag(@, FALSE))],
                  ret |-> TRUE]
            ELSE [ppu |-> p2, ret |-> FALSE]
    ELSE [ppu |-> [p EXCEPT !.cycles = c1], ret |-> FALSE]

\* Ppu::tick: the PPU after the call and the value returned
PpuTick(p, d) ==
    LET c1 == p.cycles + d IN
    IF c1 >= DotsPerScanline
    THEN LET p1 == [p EXCEPT !.cycles = c1 - DotsPerScanline,
                             !.scanline = p.scanline + 1]
             p2 == IF p1.scanline = VBlankScanline
                   THEN [p1 EXCEPT
                           !.status_register =
                               set_sprite_zero_hit_flag(
                                   set_vblank_started_flag(@, TRUE), FALSE),
                           !.nmi_interrupt =
                               IF has_vblank_nmi_flag(p1.ctrl_register)
                               THEN Some(1) ELSE @]
                   ELSE p1
         IN IF p2.scanline >= ScanlinesPerFrame
            THEN [ppu |-> [p2 EXCEPT
                             !.scanline = 0,
                             !.nmi_interrupt = None,
                             !.status_register =
                                 reset_vblank_status_flag(
                                     set_sprite_zero_hit_flag(@, FALSE))],
                  ret |-> TRUE]
            ELSE [ppu |-> p2, ret |-> FALSE]
    ELSE [ppu |-> [p EXCEPT !.cycles = c1], ret |-> FALSE]

\* Ppu::poll_nmi_interrupt with a peek in place of Option::take
PpuPollNmiPeek(p) == [ppu |-> p, ret |-> p.nmi_interrupt]

\* Ppu::poll_nmi_interrupt (Option::take)
PpuPollNmi(p) ==
    [ppu |-> [p EXCEPT !.nmi_interrupt = None], ret |-> p.nmi_interrupt]

PpuWriteAddress(p, value) ==
    [p EXCEPT !.addr_register = AddressUpdate(@, value)]

\* Ppu::write_to_control_register that latches on every write with NMI enabled
PpuWriteControlNoEdge(p, value) ==
    LET p1 == [p EXCEPT !.ctrl_register = value] IN
    IF has_vblank_nmi_flag(p1.ctrl_register)
       /\ has_vblank_started(p1.status_register)
    THEN [p1 EXCEPT !.nmi_interrupt = Some(1)]
    ELSE p1

\* Ppu::write_to_control_register that latches when NMI generation is
\* raised, in vertical blank or not
PpuWriteControlAnywhere(p, value) ==
    IF ~has_vblank_nmi_flag(p.ctrl_register) /\ has_vblank_nmi_flag(value)
    THEN [p EXCEPT !.ctrl_register = value, !.nmi_interrupt = Some(1)]
    ELSE [p EXCEPT !.ctrl_register = value]

PpuWriteControl(p, value) ==
    LET prev_nmi_flag == has_vblank_nmi_flag(p.ctrl_register)
        p1 == [p EXCEPT !.ctrl_register = value]
    IN IF ~prev_nmi_flag
          /\ has_vblank_nmi_flag(p1.ctrl_register)
          /\ has_vblank_started(p1.status_register)
       THEN [p1 EXCEPT !.nmi_interrupt = Some(1)]
       ELSE p1

PpuWriteScroll(p, value) ==
    [p EXCEPT !.scroll_register = ScrollWrite(@, value)]

\* Ppu::read_status_register that returns the flags after clearing VBlank
PpuReadStatusLate(p) ==
    LET p1 == [p EXCEPT
                 !.status_register = reset_vblank_status_flag(@),
                 !.addr_register = AddressResetLatch(@),
                 !.scroll_register = ScrollResetLatch(@)]
    IN [ppu |-> p1, ret |-> p1.status_register]

PpuReadStatus(p) ==
    LET stat_reg_snapshot == p.status_register IN
    [ppu |-> [p EXCEPT
                !.status_register = reset_vblank_status_flag(@),
                !.addr_register = AddressResetLatch(@),
                !.scroll_register = ScrollResetLatch(@)],
     ret |-> stat_reg_snapshot]

\* Ppu::increment_vram_address that also puts the Address latch back to its
\* first phase
PpuIncrementResetsLatch(p) ==
    [p EXCEPT !.addr_register =
        AddressResetLatch(
            AddressIncrement(@, vram_address_increment(p.ctrl_register)))]

\* Ppu::increment_vram_address
PpuIncrementVramAddress(p) ==
    [p EXCEPT !.addr_register =
                  AddressIncrement(@, vram_address_increment(p.ctrl_register))]

\* Ppu::mirror_vram_address with the two foldings exchanged
MirrorVramSwapped(p, addr) ==
    LET vram_index == BitAnd(addr, 12287) - 8192
        name_table == vram_index \div 1024
    IN CASE p.mirroring_mode = "Vertical" /\ name_table \in {1, 2} ->
                vram_index - 1024
         [] \/ p.mirroring_mode = "Horizontal" /\ name_table \in {2, 3}
            \/ p.mirroring_mode = "Vertical" /\ name_table = 3 ->
                vram_index - 2048
         [] OTHER -> vram_index

\* Ppu::mirror_vram_address: the index into vram of PPU address addr
mirror_vram_address(p, addr) ==
    LET mirrored_vram == BitAnd(addr, 12287)
        vram_index == mirrored_vram - 8192
        name_table == vram_index \div 1024
    IN CASE p.mirroring_mode = "Horizontal" /\ name_table \in {1, 2} ->
                vram_index - 1024
         [] \/ p.mirroring_mode = "Vertical" /\ name_table \in {2, 3}
            \/ p.mirroring_mode = "Horizontal" /\ name_table = 3 ->
                vram_index - 2048
         [] OTHER -> vram_index

\* the palette addresses that mirror the entry 0x10 below
PaletteAliases == {16144, 16148, 16152, 16156}

\* the outcome of a PPUDATA access: the PPU after it, the byte returned and
\* whether the access panicked (the PPU is then as the panic left it)
DataResult(p, ret, panicked) == [ppu |-> p, ret |-> ret, fault |-> panicked]

\* Ppu::read_data_register that returns the byte at the address directly
PpuReadDataUnbuffered(p) ==
    LET addr == get_address(p.addr_register)
        p1 == PpuIncrementVramAddress(p)
    IN CASE addr <= 8191 -> DataResult(p1, ChrRomAt(addr), FALSE)
         [] addr \in 8192..12287 ->
                DataResult(p1, ArrayGet(p.vram, mirror_vram_address(p, addr)),
                           mirror_vram_address(p, addr) >= VramLen)
         [] OTHER -> DataResult(p1, 0, TRUE)

\* the match of Ppu::read_data_register: addr is the address taken before
\* the increment, p1 the PPU after it, result the buffer before the read
ReadDataAt(p1, addr, result) ==
       CASE addr <= 8191 ->
                IF addr < ChrRomLen
                THEN DataResult([p1 EXCEPT !.internal_data_buffer = ChrRomAt(addr)],
                                result, FALSE)
                ELSE DataResult(p1, 0, TRUE)
         [] addr \in 8192..12287 ->
                IF mirror_vram_address(p1, addr) < VramLen
                THEN DataResult(
                         [p1 EXCEPT !.internal_data_buffer =
                             ArrayGet(p1.vram, mirror_vram_address(p1, addr))],
                         result, FALSE)
                ELSE DataResult(p1, 0, TRUE)
         [] addr \in PaletteAliases ->
                DataResult(p1, ArrayGet(p1.palette_table, (addr - 16) - 16128),
                           FALSE)
         [] addr \in 12288..16127 -> DataResult(p1, 0, TRUE)
         [] addr \in 16128..16383 /\ addr \notin PaletteAliases ->
                IF addr - 16128 < PaletteLen
                THEN DataResult(p1, ArrayGet(p1.palette_table, addr - 16128),
                                FALSE)
                ELSE DataResult(p1, 0, TRUE)
         [] OTHER -> DataResult(p1, 0, TRUE)

\* Ppu::read_data_register
PpuReadData(p) ==
    ReadDataAt(PpuIncrementVramAddress(p), get_address(p.addr_register),
               p.internal_data_buffer)

\* Ppu::write_to_data_register that stores at a palette alias's own index
PpuWriteDataNoAlias(p, data) ==
    LET addr == get_address(p.addr_register)
    IN CASE addr <= 8191 -> DataResult(PpuIncrementVramAddress(p), 0, FALSE)
         [] addr \in 16128..16159 ->
                DataResult(PpuIncrementVramAddress(
                               [p EXCEPT !.palette_table =
                                   ArraySet(@, addr - 16128, data)]),
                           0, FALSE)
         [] OTHER -> DataResult(p, 0, TRUE)

\* the match of Ppu::write_to_data_register and the increment after it
WriteDataAt(p, addr, data) ==
       CASE addr <= 8191 -> DataResult(PpuIncrementVramAddress(p), 0, FALSE)
         [] addr \in 8192..12287 ->
                IF mirror_vram_address(p, addr) < VramLen
                THEN DataResult(
                         PpuIncrementVramAddress(
                             [p EXCEPT !.vram =
                                 ArraySet(@, mirror_vram_address(p, addr), data)]),
                         0, FALSE)
                ELSE DataResult(p, 0, TRUE)
         [] addr \in 12288..16127 -> DataResult(p, 0, TRUE)
         [] addr \in PaletteAliases ->
                DataResult(
                    PpuIncrementVramAddress(
                        [p EXCEPT !.palette_table =
                            ArraySet(@, (addr - 16) - 16128, data)]),
                    0, FALSE)
         [] addr \in 16128..16383 /\ addr \notin PaletteAliases ->
                IF addr - 16128 < PaletteLen
                THEN DataResult(
                         PpuIncrementVramAddress(
                             [p EXCEPT !.palette_table =
                                 ArraySet(@, addr - 16128, data)]),
                         0, FALSE)
                ELSE DataResult(p, 0, TRUE)
         [] OTHER -> DataResult(p, 0, TRUE)

\* Ppu::write_to_data_register
PpuWriteData(p, data) == WriteDataAt(p, get_address(p.addr_register), data)

\* Ppu::write_to_mask_register
PpuWriteMask(p, value) == [p EXCEPT !.mask_register = value]

\* Ppu::write_to_oam_address_register
PpuWriteOamAddress(p, value) == [p EXCEPT !.oam_addr_register = value]

\* Ppu::write_to_oam_data_register
PpuWriteOamData(p, value) ==
    [p EXCEPT !.oam_data_register = ArraySet(@, p.oam_addr_register, value),
              !.oam_addr_register = (@ + 1) % 256]

\* Ppu::read_oam_data_register
PpuReadOamData(p) == ArrayGet(p.oam_data_register, p.oam_addr_register)

\* data.iter().for_each(|x| self.write_to_oam_data_register(*x)): the bytes in
\* order, the first half of the sequence and then the second. The test on
\* OAMADDR (a u8) has the first half evaluated before the second is begun.
RECURSIVE OamStream(_, _)
OamSecond(half, data) ==
    IF half.oam_addr_register \in 0..255 THEN OamStream(half, data) ELSE half

OamStream(p, data) ==
    IF Len(data) = 0 THEN p
    ELSE IF Len(data) = 1 THEN PpuWriteOamData(p, data[1])
    ELSE OamSecond(OamStream(p, SubSeq(data, 1, Len(data) \div 2)),
                   SubSeq(data, Len(data) \div 2 + 1, Len(data)))

\* Ppu::write_to_oam_dma_register that stores from OAM[0] whatever OAMADDR is
PpuWriteOamDmaFromZero(p, data) ==
    [OamStream([p EXCEPT !.oam_addr_register = 0], data)
        EXCEPT !.oam_addr_register = p.oam_addr_register]

\* Ppu::write_to_oam_dma_register: every byte through the OAM-data write path
PpuWriteOamDma(p, data) == OamStream(p, data)

(***************************************************************************)
(* The cartridge loader.  A raw image is the record of its first bytes, at *)
(* most the 16 of the header (raw.header), and the count of the bytes that *)
(* follow them (raw.rest); the result is Ok with the sizes of the two      *)
(* slices taken, the mapper and the mirroring, Err with the message, or    *)
(* Abort when an index or a slice is out of the image's bounds (a panic).  *)
(***************************************************************************)
NES_FILE_SIGNATURE == <<78, 69, 83, 26>>
PRG_ROM_PAGE_SIZE == 16384
CHR_ROM_PAGE_SIZE == 8192

\* raw_data.len()
RawLen(raw) == Len(raw.header) + raw.rest

\* raw_data[i], for i within the bytes held
RawAt(raw, i) == raw.header[i + 1]

\* the screen_mirroring match of Rom::new
RomMirroring(flags6) ==
    IF BitAnd(flags6, 8) # 0 THEN "FourScreen"
    ELSE IF BitAnd(flags6, 1) # 0 THEN "Vertical"
    ELSE "Horizontal"

\* where the PRG ROM starts: after the header and the trainer, if any
PrgRomStart(flags6) == 16 + (IF BitAnd(flags6, 4) # 0 THEN 512 ELSE 0)

\* the two slices of Rom::new: a slice whose end is past the last byte aborts
RomSlices(raw, prg_rom_start_pos, prg_rom_size, chr_rom_size) ==
    IF prg_rom_start_pos + prg_rom_size + chr_rom_size > RawLen(raw)
    THEN [kind |-> "Abort"]
    ELSE [kind |-> "Ok",
          prg_rom_len |-> prg_rom_size,
          chr_rom_len |-> chr_rom_size,
          mapper |-> BitAnd(RawAt(raw, 7), 240) + (RawAt(raw, 6) \div 16),
          screen_mirroring |-> RomMirroring(RawAt(raw, 6))]

\* Rom::new
RomNew(raw) ==
    IF RawLen(raw) < 4 THEN [kind |-> "Abort"]
    ELSE IF SubSeq(raw.header, 1, 4) # NES_FILE_SIGNATURE
    THEN [kind |-> "Err", msg |-> "ROM data is not in iNES file format"]
    ELSE IF RawLen(raw) < 8 THEN [kind |-> "Abort"]
    ELSE IF (RawAt(raw, 7) \div 4) % 4 # 0
    THEN [kind |-> "Err", msg |-> "NES2.0 ROM format not supported"]
    ELSE RomSlices(raw, PrgRomStart(RawAt(raw, 6)),
                   RawAt(raw, 4) * PRG_ROM_PAGE_SIZE,
                   RawAt(raw, 5) * CHR_ROM_PAGE_SIZE)

(***************************************************************************)
(* The cartridge's PRG ROM: 32 KiB images, each a short program at 0x8000, *)
(* the NMI vector at 0xFFFA and the reset vector at 0xFFFC; every other    *)
(* byte is 0x00 (BRK).  The image "ram" holds no program: its reset vector *)
(* points at RAM, where the program under test is written.                 *)
(***************************************************************************)
\* LDA #$80; STA $2000; spin: JMP spin / nmi: LDA $2002; RTI
ProgramSpin ==
    <<169, 128, 141, 0, 32, 76, 5, 128, 173, 2, 32, 64>>
\* loop: LDA #$00; STA $2000; LDA #$80; STA $2000; JMP loop / nmi: RTI
ProgramToggle ==
    <<169, 0, 141, 0, 32, 169, 128, 141, 0, 32, 76, 0, 128, 64>>
\* NOP; LDA $2002; BRK
ProgramHalt ==
    <<234, 173, 2, 32, 0>>
\* LDA #$80; STA $2000; loop: LDA #$FF; PHA; PLP; PHP; PLA; LDA #$00; PHA;
\* PLP; JMP loop / nmi: PLA; LDA #$DF; PHA; RTI
ProgramFlags ==
    <<169, 128, 141, 0, 32, 169, 255, 72, 40, 8, 104, 169, 0, 72, 40,
      76, 5, 128, 104, 169, 223, 72, 64>>
\* NOP; loop: LDA #$00; STA $2000; LDA #$80; STA $2000; JMP loop / nmi: RTI
ProgramRace ==
    <<234, 169, 0, 141, 0, 32, 169, 128, 141, 0, 32, 76, 1, 128, 64>>

Programs == {"spin", "toggle", "halt"}

ProgramBytes(pr) ==
    CASE pr = "spin" -> ProgramSpin
      [] pr = "toggle" -> ProgramToggle
      [] pr = "halt" -> ProgramHalt
      [] pr = "flags" -> ProgramFlags
      [] pr = "race" -> ProgramRace
      [] pr = "ram" -> <<>>

\* offset of the NMI handler in each image
NmiHandler(pr) ==
    CASE pr = "spin" -> 8
      [] pr = "toggle" -> 13
      [] pr = "halt" -> 4
      [] pr = "flags" -> 18
      [] pr = "race" -> 14
      [] pr = "ram" -> 0

\* where the programs written to RAM start (0x0200)
CodeBase == 512

\* the address each image stores at the reset vector: the start of PRG ROM,
\* or of the code in RAM for the image that holds no program
ResetVector(pr) == IF pr = "ram" THEN CodeBase ELSE 32768

PrgRomLen == 32768

\* prg_rom[i]
PrgRomAt(pr, i) ==
    IF i < Len(ProgramBytes(pr)) THEN ProgramBytes(pr)[i + 1]
    ELSE IF i = 32762 THEN NmiHandler(pr)  \* 0xFFFA - 0x8000
    ELSE IF i = 32763 THEN 128             \* 0xFFFB - 0x8000
    ELSE IF i = 32764 THEN ResetVector(pr) % 256     \* 0xFFFC - 0x8000
    ELSE IF i = 32765 THEN ResetVector(pr) \div 256  \* 0xFFFD - 0x8000
    ELSE 0

(***************************************************************************)
(* The Bus.  A bus record holds the Bus struct's fields, the count of      *)
(* frame-callback invocations and the abort flag.                          *)
(***************************************************************************)
RAM_MIRRORS_END_ADDR == 8191
RAM_MIRROR_MASK == 2047
PPU_CTRL_REGISTER == 8192
PPU_MASK_REGISTER == 8193
PPU_STATUS_REGISTER == 8194
PPU_OAM_ADDR_REGISTER == 8195
PPU_OAM_DATA_REGISTER == 8196
PPU_SCROLL_REGISTER == 8197
PPU_ADDR_REGISTER == 8198
PPU_DATA_REGISTER == 8199
PPU_OAM_DMA_REGISTER == 16404
PPU_REGISTERS_MIRRORS_START_ADDR == 8200
PPU_REGISTERS_MIRRORS_END_ADDR == 16383
PPU_MIRROR_MASK == 8199
PRG_ROM_START_ADDR == 32768

Panic(b) == [b EXCEPT !.fault = TRUE]

\* Bus::tick that advances the PPU one dot per CPU cycle
BusTickNoTriple(b, c) ==
    LET b1 == [b EXCEPT !.cycles = @ + c]
        r == PpuTick(b1.ppu, c)
    IN [b1 EXCEPT !.ppu = r.ppu,
                  !.frames = IF r.ret THEN @ + 1 ELSE @]

\* the Bus after the PPU has ticked: a completed frame runs the callback
Ticked(b1, r) ==
    [b1 EXCEPT !.ppu = r.ppu,
               !.frames = IF r.ret THEN @ + 1 ELSE @]

\* Bus::tick: `cycles * 3` is a u8 product
BusTick(b, c) ==
    IF c * 3 > 255 /\ overflow_checks
    THEN Panic([b EXCEPT !.cycles = @ + c])
    ELSE Ticked([b EXCEPT !.cycles = @ + c], PpuTick(b.ppu, (c * 3) % 256))

\* Bus::poll_nmi_status
BusPolled(b, r) == [bus |-> [b EXCEPT !.ppu = r.ppu], ret |-> r.ret]

BusPollNmi(b) == BusPolled(b, PpuPollNmi(b.ppu))

\* Bus::read_prg_rom
ReadPrgRom(pr, addr) ==
    LET a == addr - 32768
    IN PrgRomAt(pr, IF PrgRomLen = 16384 /\ a >= 16384 THEN a % 16384 ELSE a)

\* the Bus and the byte returned after the PPU call of a register read arm
StatusRead(b, r) == [bus |-> [b EXCEPT !.ppu = r.ppu], ret |-> r.ret]

DataRead(b, r) ==
    [bus |-> [b EXCEPT !.ppu = r.ppu, !.fault = r.fault], ret |-> r.ret]

\* the Bus after the PPU call of the PPUDATA write arm
DataWritten(b, r) == [b EXCEPT !.ppu = r.ppu, !.fault = r.fault]

\* Bus::mem_read with the register mirrors folded onto four registers only
RECURSIVE MemReadNarrowMirror(_, _, _)
MemReadNarrowMirror(b, pr, addr) ==
    CASE addr <= RAM_MIRRORS_END_ADDR ->
            [bus |-> b, ret |-> ArrayGet(b.cpu_ram, BitAnd(addr, RAM_MIRROR_MASK))]
      [] addr \in {PPU_CTRL_REGISTER, PPU_MASK_REGISTER, PPU_OAM_ADDR_REGISTER,
                   PPU_SCROLL_REGISTER, PPU_ADDR_REGISTER, PPU_OAM_DMA_REGISTER} ->
            [bus |-> Panic(b), ret |-> 0]
      [] addr = PPU_STATUS_REGISTER ->
            StatusRead(b, PpuReadStatus(b.ppu))
      [] addr = PPU_OAM_DATA_REGISTER ->
            [bus |-> b, ret |-> PpuReadOamData(b.ppu)]
      [] addr = PPU_DATA_REGISTER ->
            DataRead(b, PpuReadData(b.ppu))
      [] addr >= PPU_REGISTERS_MIRRORS_START_ADDR
         /\ addr <= PPU_REGISTERS_MIRRORS_END_ADDR ->
            MemReadNarrowMirror(b, pr, BitAnd(addr, 8195))
      [] addr >= PRG_ROM_START_ADDR ->
            [bus |-> b, ret |-> ReadPrgRom(pr, addr)]
      [] OTHER -> [bus |-> b, ret |-> 0]

\* Bus::mem_read that returns the high address byte (open bus) for an unmapped
\* address
MemReadOpenBus(b, pr, addr) ==
    IF addr \in 16384..32767
    THEN [bus |-> b, ret |-> addr \div 256]
    ELSE [bus |-> b, ret |-> ArrayGet(b.cpu_ram, BitAnd(addr, RAM_MIRROR_MASK))]

\* Bus::mem_read: the bus after the read and the byte returned
RECURSIVE MemRead(_, _, _)
MemRead(b, pr, addr) ==
    CASE addr <= RAM_MIRRORS_END_ADDR ->
            [bus |-> b, ret |-> ArrayGet(b.cpu_ram, BitAnd(addr, RAM_MIRROR_MASK))]
      [] addr \in {PPU_CTRL_REGISTER, PPU_MASK_REGISTER, PPU_OAM_ADDR_REGISTER,
                   PPU_SCROLL_REGISTER, PPU_ADDR_REGISTER, PPU_OAM_DMA_REGISTER} ->
            [bus |-> Panic(b), ret |-> 0]
      [] addr = PPU_STATUS_REGISTER ->
            StatusRead(b, PpuReadStatus(b.ppu))
      [] addr = PPU_OAM_DATA_REGISTER ->
            [bus |-> b, ret |-> PpuReadOamData(b.ppu)]
      [] addr = PPU_DATA_REGISTER ->
            DataRead(b, PpuReadData(b.ppu))
      [] addr >= PPU_REGISTERS_MIRRORS_START_ADDR
         /\ addr <= PPU_REGISTERS_MIRRORS_END_ADDR ->
            MemRead(b, pr, BitAnd(addr, PPU_MIRROR_MASK))
      [] addr >= PRG_ROM_START_ADDR ->
            [bus |-> b, ret |-> ReadPrgRom(pr, addr)]
      [] OTHER -> [bus |-> b, ret |-> 0]

\* the read loop of the OAM DMA: the n bus reads of hi + i .. hi + i + n - 1
\* in increasing order (the first half of the range, then the second), with
\* the bytes read; a read that panics ends it
RECURSIVE DmaFill(_, _, _, _)
DmaOne(r) == [bus |-> r.bus, buffer |-> <<r.ret>>]

DmaJoin(first, second) ==
    [bus |-> second.bus, buffer |-> first.buffer \o second.buffer]

DmaSecond(first, hi, i, n) == DmaJoin(first, DmaFill(first.bus, hi, i, n))

DmaFill(b, hi, i, n) ==
    IF b.fault THEN [bus |-> b, buffer |-> <<>>]
    ELSE IF n = 1 THEN DmaOne(MemRead(b, b.prg_rom, hi + i))
    ELSE DmaSecond(DmaFill(b, hi, i, n \div 2), hi, i + n \div 2, n - n \div 2)

\* the OAM DMA arm of Bus::mem_write: the buffer read goes to the PPU
DmaStore(f) ==
    IF f.bus.fault THEN f.bus
    ELSE [f.bus EXCEPT !.ppu = PpuWriteOamDma(@, f.buffer)]

OamDma(b, data) == DmaStore(DmaFill(b, data * 256, 0, OamLen))

\* Bus::mem_write that drops a write to a read-only address
RECURSIVE MemWriteLenient(_, _, _)
MemWriteLenient(b, addr, data) ==
    CASE addr <= RAM_MIRRORS_END_ADDR ->
            [b EXCEPT !.cpu_ram = ArraySet(@, BitAnd(addr, RAM_MIRROR_MASK), data)]
      [] addr = PPU_CTRL_REGISTER ->
            [b EXCEPT !.ppu = PpuWriteControl(@, data)]
      [] addr = PPU_MASK_REGISTER ->
            [b EXCEPT !.ppu = PpuWriteMask(@, data)]
      [] addr = PPU_OAM_ADDR_REGISTER ->
            [b EXCEPT !.ppu = PpuWriteOamAddress(@, data)]
      [] addr = PPU_OAM_DATA_REGISTER ->
            [b EXCEPT !.ppu = PpuWriteOamData(@, data)]
      [] addr = PPU_SCROLL_REGISTER ->
            [b EXCEPT !.ppu = PpuWriteScroll(@, data)]
      [] addr = PPU_ADDR_REGISTER ->
            [b EXCEPT !.ppu = PpuWriteAddress(@, data)]
      [] addr = PPU_DATA_REGISTER ->
            DataWritten(b, PpuWriteData(b.ppu, data))
      [] addr >= PPU_REGISTERS_MIRRORS_START_ADDR
         /\ addr <= PPU_REGISTERS_MIRRORS_END_ADDR ->
            MemWriteLenient(b, BitAnd(addr, PPU_MIRROR_MASK), data)
      [] addr = PPU_OAM_DMA_REGISTER -> OamDma(b, data)
      [] OTHER -> b

\* Bus::mem_write that stores a RAM write at the address as given, unmirrored
MemWriteNoRamMirror(b, addr, data) ==
    IF addr <= RAM_MIRRORS_END_ADDR
    THEN [b EXCEPT !.cpu_ram = ArraySet(@, addr, data)]
    ELSE MemWriteLenient(b, addr, data)

\* Bus::mem_write
RECURSIVE MemWrite(_, _, _)
MemWrite(b, addr, data) ==
    CASE addr <= RAM_MIRRORS_END_ADDR ->
            [b EXCEPT !.cpu_ram = ArraySet(@, BitAnd(addr, RAM_MIRROR_MASK), data)]
      [] addr = PPU_CTRL_REGISTER ->
            [b EXCEPT !.ppu = PpuWriteControl(@, data)]
      [] addr = PPU_MASK_REGISTER ->
            [b EXCEPT !.ppu = PpuWriteMask(@, data)]
      [] addr = PPU_STATUS_REGISTER -> Panic(b)
      [] addr = PPU_OAM_ADDR_REGISTER ->
            [b EXCEPT !.ppu = PpuWriteOamAddress(@, data)]
      [] addr = PPU_OAM_DATA_REGISTER ->
            [b EXCEPT !.ppu = PpuWriteOamData(@, data)]
      [] addr = PPU_SCROLL_REGISTER ->
            [b EXCEPT !.ppu = PpuWriteScroll(@, data)]
      [] addr = PPU_ADDR_REGISTER ->
            [b EXCEPT !.ppu = PpuWriteAddress(@, data)]
      [] addr = PPU_DATA_REGISTER ->
            DataWritten(b, PpuWriteData(b.ppu, data))
      [] addr >= PPU_REGISTERS_MIRRORS_START_ADDR
         /\ addr <= PPU_REGISTERS_MIRRORS_END_ADDR ->
            MemWrite(b, BitAnd(addr, PPU_MIRROR_MASK), data)
      [] addr = PPU_OAM_DMA_REGISTER -> OamDma(b, data)
      [] addr >= PRG_ROM_START_ADDR -> Panic(b)
      [] OTHER -> b

\* Memory::mem_read_u16: low byte at addr, high byte at addr + 1
U16Join(lo, hi) == [bus |-> hi.bus, ret |-> hi.ret * 256 + lo.ret]

U16High(lo, pr, addr) ==
    U16Join(lo, MemRead(IF addr + 1 > 65535 /\ overflow_checks
                        THEN Panic(lo.bus) ELSE lo.bus,
                        pr, (addr + 1) % 65536))

MemReadU16(b, pr, addr) == U16High(MemRead(b, pr, addr), pr, addr)

(***************************************************************************)
(* The opcode table (crate::nes::opcodes): length and base cycle count of  *)
(* the opcodes the PRG ROM images and the programs placed in RAM use.       *)
(***************************************************************************)
\* BPL, BMI, BVC, BVS, BCC, BCS, BNE, BEQ
BranchOpcodes == {16, 48, 80, 112, 144, 176, 208, 240}

\* CLC, SEC, PHA, PLA, TXS, LDX #, TAX, INX, SED, ADC #, SBC #
\* BRK, RTI, JMP, STA abs, LDA #, LDA abs, NOP, JSR, RTS
\* PHP, PLP, JMP (indirect), DCP zero page
KnownOpcodes ==
    {0, 64, 76, 141, 169, 173, 234, 32, 96, 24, 56, 72, 104, 154, 162, 170,
     232, 248, 105, 233, 8, 40, 108, 199} \cup BranchOpcodes

\* OpCode::len
OpLen(code) ==
    CASE code \in {0, 64, 234, 96, 24, 56, 72, 104, 154, 170, 232, 248,
                   8, 40} -> 1
      [] code \in {169, 162, 105, 233, 199} \cup BranchOpcodes -> 2
      [] code \in {76, 141, 173, 32, 108} -> 3

\* OpCode::cycles
OpCycles(code) ==
    CASE code \in {169, 234, 24, 56, 154, 162, 170, 232, 248, 105, 233}
                   \cup BranchOpcodes -> 2
      [] code \in {76, 72, 8} -> 3
      [] code \in {141, 173, 104, 40} -> 4
      [] code \in {108, 199} -> 5
      [] code \in {64, 32, 96} -> 6
      [] code = 0 -> 7

\* OpCode::mode
OpMode(code) ==
    CASE code \in {169, 162, 105, 233} -> "Immediate"
      [] code \in {141, 173} -> "Absolute"
      [] code = 199 -> "ZeroPage"
      [] OTHER -> "NoneAddressing"

(***************************************************************************)
(* The CPU.  A machine record m holds the Cpu's registers (m.cpu) and the  *)
(* Bus it owns (m.bus).                                                    *)
(***************************************************************************)
CARRY == 1
ZERO == 2
INTERRUPT_DISABLE == 4
DECIMAL_MODE == 8
BREAK == 16
BREAK2 == 32
OVERFLOW == 64
NEGATIVE == 128
FOURTH_BIT == 16
FIFTH_BIT == 32
STACK_START_ADDR == 256
STACK_RESET_ADDR == 253

\* interrupt::NMI
NMI == [vec_addr |-> 65530, b_flag_mask |-> 32, cpu_cycles |-> 2]

CpuNew ==
    [ register_a      |-> 0,
      register_x      |-> 0,
      register_y      |-> 0,
      status          |-> 36,
      program_counter |-> 0,
      stack_pointer   |-> STACK_RESET_ADDR ]

\* u16 `+=`: overflow panics under overflow checks and wraps without them
AddPc(m, n) ==
    LET sum == m.cpu.program_counter + n
        m1 == [m EXCEPT !.cpu.program_counter = sum % 65536]
    IN IF sum > 65535 /\ overflow_checks
       THEN [m1 EXCEPT !.bus = Panic(@)]
       ELSE m1

\* self.program_counter = <the 16-bit word read>
JumpTo(c, r) == [cpu |-> [c EXCEPT !.program_counter = r.ret], bus |-> r.bus]

\* Cpu::reset that keeps the stack pointer
CpuResetKeepsStack(m, pr) ==
    JumpTo([CpuNew EXCEPT !.stack_pointer = m.cpu.stack_pointer],
           MemReadU16(m.bus, pr, 65532))

\* Cpu::reset
CpuReset(m, pr) == JumpTo(CpuNew, MemReadU16(m.bus, pr, 65532))

\* Cpu::stack_push with a stack pointer that stays at 0
StackPushSaturating(m, data) ==
    [cpu |-> [m.cpu EXCEPT !.stack_pointer = IF @ = 0 THEN 0 ELSE @ - 1],
     bus |-> MemWrite(m.bus, STACK_START_ADDR + m.cpu.stack_pointer, data)]

\* Cpu::stack_push
StackPush(m, data) ==
    [cpu |-> [m.cpu EXCEPT !.stack_pointer = (@ + 255) % 256],
     bus |-> MemWrite(m.bus, STACK_START_ADDR + m.cpu.stack_pointer, data)]

\* Cpu::stack_pop: the stack pointer moves up, then the byte is read
Popped(m, sp, r) ==
    [m |-> [cpu |-> [m.cpu EXCEPT !.stack_pointer = sp], bus |-> r.bus],
     ret |-> r.ret]

PopAt(m, pr, sp) == Popped(m, sp, MemRead(m.bus, pr, STACK_START_ADDR + sp))

\* Cpu::stack_pop with a stack pointer that does not wrap
StackPopUnwrapped(m, pr) == PopAt(m, pr, m.cpu.stack_pointer + 1)

StackPop(m, pr) == PopAt(m, pr, (m.cpu.stack_pointer + 1) % 256)

\* Cpu::stack_push_u16: high byte, then low byte
StackPushU16(m, data) ==
    StackPush(StackPush(m, data \div 256), data % 256)

\* Cpu::stack_pop_u16: low byte, then high byte
PopJoin(lo, hi) == [m |-> hi.m, ret |-> hi.ret * 256 + lo.ret]

PopHigh(lo, pr) == PopJoin(lo, StackPop(lo.m, pr))

StackPopU16(m, pr) == PopHigh(StackPop(m, pr), pr)

\* Cpu::manage_interrupt: push the program counter, push the status with the
\* B flags of the interrupt, set INTERRUPT_DISABLE, tick the bus, load the
\* program counter from the vector
InterruptVector(m4, pr, interrupt) ==
    JumpTo(m4.cpu, MemReadU16(m4.bus, pr, interrupt.vec_addr))

InterruptTick(m2, pr, interrupt) ==
    InterruptVector(
        [m2 EXCEPT !.cpu.status = Insert(@, INTERRUPT_DISABLE),
                   !.bus = BusTick(@, interrupt.cpu_cycles)],
        pr, interrupt)

InterruptStatus(m1, pr, interrupt) ==
    InterruptTick(
        StackPush(m1,
                  SetFlag(SetFlag(m1.cpu.status, BREAK,
                                  BitAnd(interrupt.b_flag_mask, FOURTH_BIT) = 1),
                          BREAK2, BitAnd(interrupt.b_flag_mask, FIFTH_BIT) = 1)),
        pr, interrupt)

ManageInterrupt(m, pr, interrupt) ==
    InterruptStatus(StackPushU16(m, m.cpu.program_counter), pr, interrupt)

\* Cpu::update_zero_flag and Cpu::update_negative_flag
UpdateZeroAndNegative(status, result) ==
    SetFlag(SetFlag(status, ZERO, result = 0), NEGATIVE, result >= 128)

\* Cpu::set_register_a
SetRegisterA(m, value) ==
    [m EXCEPT !.cpu.register_a = value,
              !.cpu.status = UpdateZeroAndNegative(@, value)]

\* Cpu::compute_operand_address, for Immediate, Absolute and ZeroPage
OperandAt(m, r) ==
    [m |-> [m EXCEPT !.bus = r.bus], addr |-> r.ret, page_cross |-> FALSE]

ComputeOperandAddress(m, pr, mode) ==
    CASE mode = "Immediate" ->
            [m |-> m, addr |-> m.cpu.program_counter, page_cross |-> FALSE]
      [] mode = "Absolute" ->
            OperandAt(m, MemReadU16(m.bus, pr, m.cpu.program_counter))
      [] mode = "ZeroPage" ->
            OperandAt(m, MemRead(m.bus, pr, m.cpu.program_counter))

\* Cpu::lda: read the operand, set A and the flags, tick on a page cross
LdaDone(o, m1) ==
    IF o.page_cross THEN [m1 EXCEPT !.bus = BusTick(@, 1)] ELSE m1

LdaLoad(o, r) == LdaDone(o, SetRegisterA([o.m EXCEPT !.bus = r.bus], r.ret))

LdaAt(o, pr) == LdaLoad(o, MemRead(o.m.bus, pr, o.addr))

Lda(m, pr, mode) == LdaAt(ComputeOperandAddress(m, pr, mode), pr)

\* Cpu::sta
StaAt(o) == [o.m EXCEPT !.bus = MemWrite(@, o.addr, o.m.cpu.register_a)]

Sta(m, pr, mode) == StaAt(ComputeOperandAddress(m, pr, mode))

\* Cpu::jmp_absolute
JmpAbsolute(m, pr) ==
    JumpTo(m.cpu, MemReadU16(m.bus, pr, m.cpu.program_counter))

\* Cpu::jmp_indirect that reads the high byte at ptr + 1 on every page
JmpIndirectNoWrap(m, pr) ==
    JumpTo(m.cpu,
           MemReadU16(MemReadU16(m.bus, pr, m.cpu.program_counter).bus, pr,
                      MemReadU16(m.bus, pr, m.cpu.program_counter).ret))

\* Cpu::jmp_indirect: the pointer is the operand word; when its low byte is
\* 0xFF the high byte of the destination is read at the start of the
\* pointer's page
IndirectWrapped(lo, pr, addr) ==
    U16Join(lo, MemRead(lo.bus, pr, BitAnd(addr, 65280)))

IndirectAddr(r, pr) ==
    IF BitAnd(r.ret, 255) = 255
    THEN IndirectWrapped(MemRead(r.bus, pr, r.ret), pr, r.ret)
    ELSE MemReadU16(r.bus, pr, r.ret)

JmpIndirect(m, pr) ==
    JumpTo(m.cpu,
           IndirectAddr(MemReadU16(m.bus, pr, m.cpu.program_counter), pr))

\* Cpu::set_register_x
SetRegisterX(m, value) ==
    [m EXCEPT !.cpu.register_x = value,
              !.cpu.status = UpdateZeroAndNegative(@, value)]

\* Cpu::ldx
LdxLoad(o, r) == LdaDone(o, SetRegisterX([o.m EXCEPT !.bus = r.bus], r.ret))

LdxAt(o, pr) == LdxLoad(o, MemRead(o.m.bus, pr, o.addr))

Ldx(m, pr, mode) == LdxAt(ComputeOperandAddress(m, pr, mode), pr)

\* Cpu::pha
Pha(m) == StackPush(m, m.cpu.register_a)

\* Cpu::pla
PlaSet(r) == SetRegisterA(r.m, r.ret)

Pla(m, pr) == PlaSet(StackPop(m, pr))

\* Cpu::php: the status is pushed with BREAK and BREAK2 set
Php(m) == StackPush(m, Insert(Insert(m.cpu.status, BREAK), BREAK2))

\* Cpu::plp that keeps the byte popped as it is
PlpRaw(m, pr) ==
    [StackPop(m, pr).m EXCEPT !.cpu.status = StackPop(m, pr).ret]

\* Cpu::plp: the status is the byte popped, with BREAK clear and BREAK2 set
PlpSet(r) == [r.m EXCEPT !.cpu.status = Insert(Remove(r.ret, BREAK), BREAK2)]

Plp(m, pr) == PlpSet(StackPop(m, pr))

\* Cpu::add_to_register_a: A + data + carry, with the carry out of bit 7 and
\* the signed overflow
AddSigns(data, result, register_a) ==
    BitAnd(BitAnd(BitXor(data, result), BitXor(result, register_a)), 128) # 0

AddResult(m, data, sum) ==
    SetRegisterA(
        [m EXCEPT !.cpu.status =
            SetFlag(SetFlag(@, CARRY, sum > 255), OVERFLOW,
                    AddSigns(data, sum % 256, m.cpu.register_a))],
        sum % 256)

AddToRegisterA(m, data) ==
    AddResult(m, data,
              m.cpu.register_a + data
                + (IF Contains(m.cpu.status, CARRY) THEN 1 ELSE 0))

\* (data as i8).wrapping_neg().wrapping_sub(1) as u8
NegMinusOne(data) == (((256 - data) % 256) + 255) % 256

\* Cpu::sub_to_register_a that adds the two's complement of the operand
SubToRegisterANegated(m, data) == AddToRegisterA(m, (256 - data) % 256)

\* Cpu::sub_to_register_a
SubToRegisterA(m, data) == AddToRegisterA(m, NegMinusOne(data))

\* Cpu::adc
AdcLoad(o, r) == LdaDone(o, AddToRegisterA([o.m EXCEPT !.bus = r.bus], r.ret))

AdcAt(o, pr) == AdcLoad(o, MemRead(o.m.bus, pr, o.addr))

Adc(m, pr, mode) == AdcAt(ComputeOperandAddress(m, pr, mode), pr)

\* Cpu::sbc
SbcLoad(o, r) == LdaDone(o, SubToRegisterA([o.m EXCEPT !.bus = r.bus], r.ret))

SbcAt(o, pr) == SbcLoad(o, MemRead(o.m.bus, pr, o.addr))

Sbc(m, pr, mode) == SbcAt(ComputeOperandAddress(m, pr, mode), pr)

\* Cpu::dcp: the byte at the operand address is decremented and stored;
\* CARRY is set when the new byte is at most A, ZERO and NEGATIVE follow
\* A minus the new byte
DcpStore(o, r, mem_value) ==
    [o.m EXCEPT
        !.bus = MemWrite(r.bus, o.addr, mem_value),
        !.cpu.status =
            UpdateZeroAndNegative(
                IF mem_value <= o.m.cpu.register_a THEN Insert(@, CARRY) ELSE @,
                (o.m.cpu.register_a + 256 - mem_value) % 256)]

DcpAt(o, pr) ==
    DcpStore(o, MemRead(o.m.bus, pr, o.addr),
             (MemRead(o.m.bus, pr, o.addr).ret + 255) % 256)

Dcp(m, pr, mode) == DcpAt(ComputeOperandAddress(m, pr, mode), pr)

\* Cpu::page_cross
PageCross(addr1, addr2) == BitAnd(addr1, 65280) # BitAnd(addr2, 65280)

\* program_counter.wrapping_add(1).wrapping_add(jump_amount as u16), the
\* displacement byte sign-extended to 16 bits
BranchTarget(pc, jump_amount) ==
    (((pc + 1) % 65536)
       + (IF jump_amount >= 128 THEN 65280 + jump_amount ELSE jump_amount))
      % 65536

\* Cpu::branch: when the condition holds, one more cycle, a second one on a
\* page cross, and the program counter moves by the signed displacement
BranchTo(m2, pc, jump_addr) ==
    [m2 EXCEPT !.bus = IF PageCross((pc + 1) % 65536, jump_addr)
                       THEN BusTick(@, 1) ELSE @,
               !.cpu.program_counter = jump_addr]

BranchRead(m1, r) ==
    BranchTo([m1 EXCEPT !.bus = r.bus], m1.cpu.program_counter,
             BranchTarget(m1.cpu.program_counter, r.ret))

BranchTaken(m1, pr) ==
    BranchRead(m1, MemRead(m1.bus, pr, m1.cpu.program_counter))

\* Cpu::branch without the cycle of the page cross
BranchNoCrossCycle(m, pr, condition) ==
    IF condition
    THEN [m EXCEPT
            !.bus = MemRead(BusTick(@, 1), pr, m.cpu.program_counter).bus,
            !.cpu.program_counter =
                BranchTarget(@, MemRead(m.bus, pr, @).ret)]
    ELSE m

Branch(m, pr, condition) ==
    IF condition THEN BranchTaken([m EXCEPT !.bus = BusTick(@, 1)], pr) ELSE m

\* the condition each branch opcode hands to Cpu::branch
BranchCondition(status, code) ==
    CASE code = 144 -> ~Contains(status, CARRY)
      [] code = 176 -> Contains(status, CARRY)
      [] code = 240 -> Contains(status, ZERO)
      [] code = 48 -> Contains(status, NEGATIVE)
      [] code = 208 -> ~Contains(status, ZERO)
      [] code = 16 -> ~Contains(status, NEGATIVE)
      [] code = 80 -> ~Contains(status, OVERFLOW)
      [] code = 112 -> Contains(status, OVERFLOW)

\* Cpu::jsr: push the address of the last operand byte, jump to the operand
JsrJump(m1, pr) ==
    JumpTo(m1.cpu, MemReadU16(m1.bus, pr, m1.cpu.program_counter))

Jsr(m, pr) ==
    JsrJump(StackPushU16(IF m.cpu.program_counter + 2 > 65535 /\ overflow_checks
                         THEN [m EXCEPT !.bus = Panic(@)] ELSE m,
                         (m.cpu.program_counter + 1) % 65536),
            pr)

\* Cpu::rts: pop the word, resume at the address after it
RtsPc(r) ==
    [cpu |-> [r.m.cpu EXCEPT !.program_counter = (r.ret + 1) % 65536],
     bus |-> IF r.ret + 1 > 65535 /\ overflow_checks
             THEN Panic(r.m.bus) ELSE r.m.bus]

Rts(m, pr) == RtsPc(StackPopU16(m, pr))

\* Cpu::rti: pop the status (BREAK cleared, BREAK2 set), then the program
\* counter
RtiPc(pc) == [pc.m EXCEPT !.cpu.program_counter = pc.ret]

RtiStatus(s, pr) ==
    RtiPc(StackPopU16(
              [s.m EXCEPT !.cpu.status = Insert(Remove(s.ret, BREAK), BREAK2)],
              pr))

\* Cpu::rti that resumes one byte after the address popped, as Cpu::rts
RtiPlusOne(m, pr) == AddPc(RtiStatus(StackPop(m, pr), pr), 1)

Rti(m, pr) == RtiStatus(StackPop(m, pr), pr)

\* the `match code` of Cpu::run_with_callback, for the opcodes modelled
Dispatch(m, pr, code) ==
    CASE code = 234 -> m
      [] code = 64 -> Rti(m, pr)
      [] code = 76 -> JmpAbsolute(m, pr)
      [] code \in {169, 173} -> Lda(m, pr, OpMode(code))
      [] code = 141 -> Sta(m, pr, OpMode(code))
      [] code = 105 -> Adc(m, pr, OpMode(code))
      [] code = 233 -> Sbc(m, pr, OpMode(code))
      [] code \in BranchOpcodes ->
            Branch(m, pr, BranchCondition(m.cpu.status, code))
      [] code = 32 -> Jsr(m, pr)
      [] code = 96 -> Rts(m, pr)
      [] code = 232 -> SetRegisterX(m, (m.cpu.register_x + 1) % 256)
      [] code = 162 -> Ldx(m, pr, OpMode(code))
      [] code = 170 -> SetRegisterX(m, m.cpu.register_a)
      [] code = 154 -> [m EXCEPT !.cpu.stack_pointer = m.cpu.register_x]
      [] code = 24 -> [m EXCEPT !.cpu.status = Remove(@, CARRY)]
      [] code = 56 -> [m EXCEPT !.cpu.status = Insert(@, CARRY)]
      [] code = 248 -> [m EXCEPT !.cpu.status = Insert(@, DECIMAL_MODE)]
      [] code = 72 -> Pha(m)
      [] code = 104 -> Pla(m, pr)
      [] code = 8 -> Php(m)
      [] code = 40 -> Plp(m, pr)
      [] code = 108 -> JmpIndirect(m, pr)
      [] code = 199 -> Dcp(m, pr, OpMode(code))

\* Cpu::run_with_callback, top of an iteration: poll the NMI latch and
\* dispatch the interrupt (the trace callback changes nothing)
Polled(m1, pr, polled) ==
    IF polled # None THEN ManageInterrupt(m1, pr, NMI) ELSE m1

NmiPolled(m, pr, r) == Polled([m EXCEPT !.bus = r.bus], pr, r.ret)

RunPoll(m, pr) == NmiPolled(m, pr, BusPollNmi(m.bus))

\* the end of the iteration without the advance past the operand
RunAdvanceNever(m3, program_counter_state, code) ==
    [m |-> m3, halted |-> FALSE]

\* Cpu::run_with_callback, end of the iteration: the program counter
\* advances past the operand unless the instruction changed it
RunAdvance(m3, program_counter_state, code) ==
    [m |-> IF program_counter_state = m3.cpu.program_counter
           THEN AddPc(m3, OpLen(code) - 1)
           ELSE m3,
     halted |-> FALSE]

\* Cpu::run_with_callback after the fetch: dispatch on the opcode and tick
\* the bus; halted is TRUE when the loop returns (BRK)
RunExecute(m1, pr, code) ==
    IF code \notin KnownOpcodes
    THEN [m |-> [m1 EXCEPT !.bus = Panic(@)], halted |-> FALSE]
    ELSE IF code = 0
    THEN [m |-> m1, halted |-> TRUE]
    ELSE RunAdvance([Dispatch(m1, pr, code) EXCEPT
                         !.bus = BusTick(@, OpCycles(code))],
                    m1.cpu.program_counter, code)

\* Cpu::run_with_callback, the fetch: f is the opcode read at the program
\* counter, which then moves past it
RunFetch(m, pr, f) ==
    RunExecute(AddPc([m EXCEPT !.bus = f.bus], 1), pr, f.ret)

\* Cpu::run_with_callback, rest of the iteration: fetch, dispatch, tick and
\* advance the program counter
RunStep(m, pr) ==
    RunFetch(m, pr, MemRead(m.bus, pr, m.cpu.program_counter))

(***************************************************************************)
(* State, initial states and actions.                                      *)
(***************************************************************************)
\* Bus::new
BusNew ==
    [ cpu_ram |-> ArrayNew,
      ppu     |-> PpuNew,
      prg_rom |-> prog,
      cycles  |-> 0,
      frames  |-> 0,
      fault   |-> FALSE ]

\* the Bus and the machine (Cpu owning the Bus) held by the state variables
TheBus ==
    [ cpu_ram |-> cpu_ram, prg_rom |-> prog, ppu |-> ppu,
      cycles |-> bus_cycles, frames |-> frames, fault |-> fault ]

TheMachine == [cpu |-> cpu, bus |-> TheBus]

SetBus(b) ==
    /\ cpu_ram' = b.cpu_ram
    /\ ppu' = b.ppu
    /\ bus_cycles' = b.cycles
    /\ frames' = b.frames
    /\ fault' = b.fault

Call(op, arg, ret) == [op |-> op, arg |-> arg, ret |-> ret]

\* Cpu::new(Bus::new(rom, callback)) for a cartridge with the given mirroring
ConstructedWith(mode) ==
    /\ ppu = [PpuNew EXCEPT !.mirroring_mode = mode]
    /\ cpu_ram = ArrayNew
    /\ bus_cycles = 0
    /\ frames = 0
    /\ fault = FALSE
    /\ cpu = CpuNew
    /\ run = "new"
    /\ last = Call("new", 0, 0)
    /\ dots = 0
    /\ hist = "power_on"
    /\ addr_parity = 0
    /\ accesses = 0
    /\ steps = 0
    /\ interrupted = None

\* Cpu::new(Bus::new(rom, callback))
Constructed ==
    /\ ppu = PpuNew
    /\ cpu_ram = ArrayNew
    /\ bus_cycles = 0
    /\ frames = 0
    /\ fault = FALSE
    /\ cpu = CpuNew
    /\ run = "new"
    /\ last = Call("new", 0, 0)
    /\ dots = 0
    /\ hist = "power_on"
    /\ addr_parity = 0
    /\ accesses = 0
    /\ steps = 0
    /\ interrupted = None

\* the PPU and the Bus alone: the program image and the build play no part
InitPpu == Constructed /\ prog = "halt" /\ overflow_checks = TRUE

InitBus == Constructed /\ prog = "halt" /\ overflow_checks \in BOOLEAN

InitCpu == Constructed /\ prog \in Programs /\ overflow_checks \in BOOLEAN

\* the cartridge whose program raises NMI generation as the frame wraps
InitRace == Constructed /\ prog = "race" /\ overflow_checks \in BOOLEAN

\* the cartridge whose program pushes and pulls the status
InitFlags == Constructed /\ prog = "flags" /\ overflow_checks \in BOOLEAN

\* the PPU of a cartridge with any of the three mirroring tags
InitData ==
    /\ \E mode \in MirroringModes : ConstructedWith(mode)
    /\ prog = "halt"
    /\ overflow_checks = TRUE

\* the Bus of a cartridge whose PRG ROM holds a program
InitMem == Constructed /\ prog = "spin" /\ overflow_checks = TRUE

\* ppu.tick(d), called on the PPU directly
DoTick(d) ==
    /\ ~fault
    /\ dots + d <= MaxDots
    /\ LET r == PpuTick(ppu, d)
       IN /\ ppu' = r.ppu
          /\ last' = Call("tick", d, r.ret)
    /\ dots' = dots + d
    /\ UNCHANGED <<cpu_ram, bus_cycles, frames, fault, cpu, run, prog,
                   overflow_checks, hist, addr_parity,
                   accesses, steps, interrupted>>

\* ppu.poll_nmi_interrupt()
DoPollNmi ==
    /\ ~fault
    /\ LET r == PpuPollNmi(ppu)
       IN /\ ppu' = r.ppu
          /\ last' = Call("poll_nmi", 0, r.ret)
    /\ UNCHANGED <<cpu_ram, bus_cycles, frames, fault, cpu, run, prog,
                   overflow_checks, dots, hist, addr_parity,
                   accesses, steps, interrupted>>

\* ppu.write_to_control_register(v)
DoWriteControl(v) ==
    /\ ~fault
    /\ ppu' = PpuWriteControl(ppu, v)
    /\ last' = Call("write_control", v, 0)
    /\ UNCHANGED <<cpu_ram, bus_cycles, frames, fault, cpu, run, prog,
                   overflow_checks, dots, hist, addr_parity,
                   accesses, steps, interrupted>>

\* ppu.read_status_register()
DoReadStatus ==
    /\ ~fault
    /\ LET r == PpuReadStatus(ppu)
       IN /\ ppu' = r.ppu
          /\ last' = Call("read_status", 0, r.ret)
    /\ hist' = "read"
    /\ addr_parity' = 0
    /\ UNCHANGED <<cpu_ram, bus_cycles, frames, fault, cpu, run, prog,
                   overflow_checks, dots,
                   accesses, steps, interrupted>>

\* ppu.write_to_address_register(v)
DoWriteAddress(v) ==
    /\ ~fault
    /\ ppu' = PpuWriteAddress(ppu, v)
    /\ last' = Call("write_address", v, 0)
    /\ hist' = IF hist = "read" THEN "read_address" ELSE "other"
    /\ addr_parity' = 1 - addr_parity
    /\ UNCHANGED <<cpu_ram, bus_cycles, frames, fault, cpu, run, prog,
                   overflow_checks, dots,
                   accesses, steps, interrupted>>

\* ppu.write_to_scroll_register(v)
DoWriteScroll(v) ==
    /\ ~fault
    /\ ppu' = PpuWriteScroll(ppu, v)
    /\ last' = Call("write_scroll", v, 0)
    /\ hist' = IF hist = "read" THEN "read_scroll" ELSE "other"
    /\ UNCHANGED <<cpu_ram, bus_cycles, frames, fault, cpu, run, prog,
                   overflow_checks, dots, addr_parity,
                   accesses, steps, interrupted>>

\* bus.tick(c)
DoBusTick(c, cap) ==
    /\ ~fault
    /\ bus_cycles + c <= cap
    /\ SetBus(BusTick(TheBus, c))
    /\ last' = Call("bus_tick", c, 0)
    /\ UNCHANGED <<cpu, run, prog, overflow_checks, dots, hist, addr_parity,
                   accesses, steps, interrupted>>

\* cpu.reset()
DoReset ==
    /\ ~fault
    /\ run = "new"
    /\ LET m == CpuReset(TheMachine, prog)
       IN /\ cpu' = m.cpu
          /\ SetBus(m.bus)
    /\ run' = "top"
    /\ last' = Call("reset", 0, 0)
    /\ UNCHANGED <<prog, overflow_checks, dots, hist, addr_parity,
                   accesses, steps, interrupted>>

\* cpu.run(): the top of a loop iteration
DoRunPoll ==
    /\ ~fault
    /\ run = "top"
    /\ bus_cycles <= MaxBusCycles
    /\ LET m == RunPoll(TheMachine, prog)
       IN /\ cpu' = m.cpu
          /\ SetBus(m.bus)
    /\ run' = "fetch"
    /\ last' = Call("run_poll", 0, ppu.nmi_interrupt)
    /\ interrupted' = IF ppu.nmi_interrupt # None
                      THEN Some([cpu |-> cpu, cpu_ram |-> cpu_ram'])
                      ELSE interrupted
    /\ UNCHANGED <<prog, overflow_checks, dots, hist, addr_parity,
                   accesses, steps>>

\* cpu.run(): the rest of the iteration
DoRunStep ==
    /\ ~fault
    /\ run = "fetch"
    /\ LET r == RunStep(TheMachine, prog)
       IN /\ cpu' = r.m.cpu
          /\ SetBus(r.m.bus)
          /\ run' = IF r.halted THEN "halted" ELSE "top"
    /\ last' = Call("run_step", cpu.program_counter, 0)
    /\ steps' = steps + 1
    /\ UNCHANGED <<prog, overflow_checks, dots, hist, addr_parity,
                   accesses, interrupted>>

\* cpu.reset() after cpu.run() has returned, and cpu.run() again
DoResetAgain ==
    /\ ~fault
    /\ run = "halted"
    /\ LET m == CpuReset(TheMachine, prog)
       IN /\ cpu' = m.cpu
          /\ SetBus(m.bus)
    /\ run' = "top"
    /\ last' = Call("reset", 1, 0)
    /\ UNCHANGED <<prog, overflow_checks, dots, hist, addr_parity,
                   accesses, steps, interrupted>>

\* Rom::new(&raw), before anything else is constructed
DoRomNew(raw) ==
    /\ ~fault
    /\ last.op = "new"
    /\ last' = Call("rom_new", raw, RomNew(raw))
    /\ fault' = (RomNew(raw).kind = "Abort")
    /\ UNCHANGED <<ppu, cpu_ram, bus_cycles, frames, cpu, run, prog,
                   overflow_checks, dots, hist, addr_parity, accesses, steps,
                   interrupted>>

\* cpu.mem_write(a, v) before the reset: one byte of the program under test
DoCpuMemWrite(a, v) ==
    /\ ~fault
    /\ run = "new"
    /\ SetBus(MemWrite(TheBus, a, v))
    /\ last' = Call("mem_write", a, v)
    /\ accesses' = accesses + 1
    /\ UNCHANGED <<cpu, run, prog, overflow_checks, dots, hist, addr_parity,
                   steps, interrupted>>

\* ppu.read_data_register()
DoReadData ==
    /\ ~fault
    /\ accesses < MaxDataAccesses
    /\ LET r == PpuReadData(ppu)
       IN /\ ppu' = r.ppu
          /\ fault' = r.fault
          /\ last' = Call("read_data", get_address(ppu.addr_register), r.ret)
    /\ accesses' = accesses + 1
    /\ UNCHANGED <<cpu_ram, bus_cycles, frames, cpu, run, prog,
                   overflow_checks, dots, hist, addr_parity, steps,
                   interrupted>>

\* ppu.write_to_data_register(v)
DoWriteData(v) ==
    /\ ~fault
    /\ accesses < MaxDataAccesses
    /\ LET r == PpuWriteData(ppu, v)
       IN /\ ppu' = r.ppu
          /\ fault' = r.fault
    /\ last' = Call("write_data", get_address(ppu.addr_register), v)
    /\ accesses' = accesses + 1
    /\ UNCHANGED <<cpu_ram, bus_cycles, frames, cpu, run, prog,
                   overflow_checks, dots, hist, addr_parity, steps,
                   interrupted>>

\* bus.mem_read(a)
DoMemRead(a) ==
    /\ ~fault
    /\ accesses < MaxBusAccesses
    /\ LET r == MemRead(TheBus, prog, a)
       IN /\ SetBus(r.bus)
          /\ last' = Call("mem_read", a, r.ret)
    /\ accesses' = accesses + 1
    /\ hist' = "other"
    /\ UNCHANGED <<cpu, run, prog, overflow_checks, dots, addr_parity, steps,
                   interrupted>>

\* bus.mem_write(a, v)
DoMemWrite(a, v) ==
    /\ ~fault
    /\ accesses < MaxBusAccesses
    /\ SetBus(MemWrite(TheBus, a, v))
    /\ last' = Call("mem_write", a, v)
    /\ accesses' = accesses + 1
    /\ hist' = "other"
    /\ UNCHANGED <<cpu, run, prog, overflow_checks, dots, addr_parity, steps,
                   interrupted>>

(***************************************************************************)
(* Inputs and specifications.                                              *)
(***************************************************************************)
TickDots == {0, 255}
CtrlBytes == {0, 128}
PpuAddrBytes == {33}
PpuScrollBytes == {7}
RegBytes == {0, 33, 255}
FrameCycles == {1, 85}
BusCycles == {1, 85, 86, 255}

\* the PPU driven directly: ticks and register accesses in any order
NextPpu ==
    \/ \E d \in TickDots : DoTick(d)
    \/ DoPollNmi
    \/ \E v \in CtrlBytes : DoWriteControl(v)
    \/ DoReadStatus
    \/ \E v \in PpuAddrBytes : DoWriteAddress(v)
    \/ \E v \in PpuScrollBytes : DoWriteScroll(v)

SpecPpu == InitPpu /\ [][NextPpu]_vars

\* the write-twice registers
NextRegs ==
    \/ \E v \in CtrlBytes : DoWriteControl(v)
    \/ DoReadStatus
    \/ \E v \in RegBytes : DoWriteAddress(v)
    \/ \E v \in RegBytes : DoWriteScroll(v)

SpecRegs == InitPpu /\ [][NextRegs]_vars

\* the PPU registers accessed through the bus, each once: reads of Status,
\* OAMDATA and PPUDATA; writes of Control, Mask, OAMADDR, OAMDATA, Scroll,
\* Address and PPUDATA, and an OAM DMA; the Bus ticked by 85 CPU cycles a
\* call, through a frame and into the next
LatchReadAddrs == {8194, 8196, 8199}

LatchWrites ==
    { <<8192, 128>>, <<8193, 30>>, <<8195, 7>>, <<8196, 68>>, <<8197, 9>>,
      <<8198, 35>>, <<8199, 85>>, <<16404, 2>> }

\* the registers are accessed in the first scanline, in the first of
\* vertical blank and in the last of the frame
LatchAccessPoint ==
    ppu.scanline \in {0, VBlankScanline, ScanlinesPerFrame - 1}

NextLatch ==
    \/ LatchAccessPoint /\ \E a \in LatchReadAddrs : DoMemRead(a)
    \/ LatchAccessPoint /\ \E w \in LatchWrites : DoMemWrite(w[1], w[2])
    \/ DoBusTick(85, MaxLatchCycles)

SpecLatch == InitMem /\ [][NextLatch]_vars

\* the Bus ticked with at most 85 CPU cycles a call
NextFrame == \E c \in FrameCycles : DoBusTick(c, MaxBusCycles)

SpecFrame == InitPpu /\ [][NextFrame]_vars

\* the Bus ticked with any cycle count
NextBus == \E c \in BusCycles : DoBusTick(c, MaxOverflowCycles)

SpecBus == InitBus /\ [][NextBus]_vars

\* the CPU running a PRG ROM image
NextCpu == DoReset \/ DoRunPoll \/ DoRunStep

SpecCpu == InitCpu /\ [][NextCpu]_vars

\* the CPU running the image that raises NMI generation as the frame wraps
NextRace == DoReset \/ DoRunPoll \/ DoRunStep

SpecRace == InitRace /\ [][NextRace]_vars

\* the CPU running the image that pushes and pulls the status
NextFlags == DoReset \/ DoRunPoll \/ DoRunStep

SpecFlags == InitFlags /\ [][NextFlags]_vars

\* bytes written to the Address register for the nametables: 0x20, 0x24,
\* 0x28 and 0x2C select the four of them, 0x00 the first cell
VramAddrBytes == {0, 32, 36, 40, 44}
\* bytes written to the Address register for the other regions: pattern
\* tables (0x00, 0x10), nametable 0 (0x20), the palette (0x3F) and a byte
\* above the 14-bit space (0xFF)
PaletteAddrBytes == {0, 16, 32, 63, 255}
\* Control with the VRAM increment bit clear and set
DataCtrlBytes == {0, 4}
DataBytes == {102}

\* the PPUDATA port on the nametables, under each mirroring
NextVram ==
    \/ \E v \in VramAddrBytes : DoWriteAddress(v)
    \/ DoReadData
    \/ \E v \in DataBytes : DoWriteData(v)

SpecVram == InitData /\ [][NextVram]_vars

\* the PPUDATA port on every region, with either address increment
NextData ==
    \/ \E v \in PaletteAddrBytes : DoWriteAddress(v)
    \/ \E v \in DataCtrlBytes : DoWriteControl(v)
    \/ DoReadData
    \/ \E v \in DataBytes : DoWriteData(v)

SpecData == InitPpu /\ [][NextData]_vars

\* bus reads: RAM and its mirrors, PPU registers and their mirrors, the DMA
\* port, unmapped addresses and PRG ROM
MemReadAddrs ==
    {1, 2049, 8191, 8192, 8194, 8199, 8204, 16378, 16383, 16384, 16404,
     16406, 32767, 32768}

\* bus writes <<address, byte>>: RAM and its mirrors, OAMADDR and OAMDATA,
\* PPUADDR and PPUDATA, Status, PRG ROM, OAM DMA from RAM pages, from PRG
\* ROM, from the PPU register page and from the page of the DMA port, and
\* unmapped addresses
MemWrites ==
    { <<1, 17>>, <<6145, 34>>, <<2047, 51>>,
      <<8195, 254>>, <<8203, 2>>, <<8196, 68>>,
      <<8198, 63>>, <<8199, 85>>, <<16383, 102>>,
      <<8194, 1>>, <<16378, 1>>, <<32768, 1>>, <<65535, 1>>,
      <<16404, 0>>, <<16404, 7>>, <<16404, 128>>, <<16404, 32>>, <<16404, 64>>,
      <<16406, 1>>, <<32767, 9>> }

NextMem ==
    \/ \E a \in MemReadAddrs : DoMemRead(a)
    \/ \E w \in MemWrites : DoMemWrite(w[1], w[2])

SpecMem == InitMem /\ [][NextMem]_vars

(***************************************************************************)
(* Raw images handed to the loader.                                        *)
(***************************************************************************)
\* 16-byte headers: the signature right or wrong in its first byte, 0 to 2
\* PRG pages, 0 or 1 CHR page, flags 6 with the mirroring, trainer and
\* mapper bits, flags 7 with the iNES version bits 0, 2 and 3 and a mapper
\* bit
RomHeaders ==
    { <<magic, 69, 83, 26, prg, chr, flags6, flags7, 0, 0, 0, 0, 0, 0, 0, 0>> :
        magic \in {78, 0}, prg \in {0, 1, 2}, chr \in {0, 1},
        flags6 \in {0, 1, 4, 8, 49, 53}, flags7 \in {0, 8, 12, 16} }

\* the bytes a header declares: header, trainer, PRG ROM and CHR ROM
DeclaredLen(h) ==
    PrgRomStart(h[7]) + h[5] * PRG_ROM_PAGE_SIZE + h[6] * CHR_ROM_PAGE_SIZE

\* image lengths: empty, around the signature, around flags 7, around the
\* header, around the trainer, and around what the header declares
RomLengths(h) ==
    {0, 3, 4, 7, 8, 15, 16, 17, 527, 528,
     DeclaredLen(h) - 1, DeclaredLen(h), DeclaredLen(h) + 1,
     DeclaredLen(h) - h[6] * CHR_ROM_PAGE_SIZE}

\* the image of n bytes that starts with header h
RawImage(h, n) ==
    [header |-> SubSeq(h, 1, IF n < 16 THEN n ELSE 16),
     rest |-> IF n < 16 THEN 0 ELSE n - 16]

RomInputs ==
    UNION { { RawImage(h, n) : n \in RomLengths(h) } : h \in RomHeaders }

\* the loader called on one raw image
NextRom == \E raw \in RomInputs : DoRomNew(raw)

SpecRom == InitPpu /\ [][NextRom]_vars

(***************************************************************************)
(* Programs written to RAM at CodeBase with cpu.mem_write before the reset *)
(* (the bytes after a program are 0x00, BRK).                              *)
(***************************************************************************)
\* A program shape is a sequence of sets of bytes; the programs of the shape
\* take each byte from the set at its position.
Exactly(t) == [i \in 1..Len(t) |-> {t[i]}]

\* what runs before a branch, to set or clear the flag it tests: nothing,
\* SEC, LDA #$00, LDA #$80, and LDA #$7F; ADC #$7F for the overflow flag
BranchSetupsOf(code) ==
    {<<>>} \cup (CASE code \in {144, 176} -> {<<56>>}
                  [] code \in {208, 240} -> {<<169, 0>>}
                  [] code \in {16, 48} -> {<<169, 128>>}
                  [] code \in {80, 112} -> {<<169, 127, 105, 127>>})

\* every branch opcode with every displacement byte
BranchPrograms ==
    UNION { { Exactly(b) \o <<{code}, Byte>> : b \in BranchSetupsOf(code) } :
            code \in BranchOpcodes }

\* high bytes of the words jumped to: RAM pages 0, 1 and 2, a RAM mirror,
\* PRG ROM and its last page
JumpPages == {0, 1, 2, 10, 128, 255}

\* JMP and JSR at CodeBase to every byte of the pages, and after a NOP to
\* every byte of the page they are in
JumpPrograms ==
    { <<{76, 32}, Byte, JumpPages>>,
      <<{234}, {76, 32}, Byte, {CodeBase \div 256}>> }

\* JSR to a subroutine that returns: LDX #x; TXS; JSR sub; BRK; sub: RTS,
\* and the same with a PHA and a PLA inside the subroutine
StackTops == {0, 1, 2, 253, 255}

CallPrograms ==
    { <<{162}, StackTops, {154}, {32}, {(CodeBase % 256) + 7},
        {CodeBase \div 256}, {0}>> \o Exactly(body) :
        body \in {<<96>>, <<72, 104, 96>>} }

\* [SED;] [SEC;] LDA #a; ADC #m  and  [SED;] [SEC;] LDA #a; SBC #m
ArithBytes == {0, 1, 127, 128, 254, 255}

ArithPrograms ==
    { Exactly(d \o c) \o <<{169}, ArithBytes, {105, 233}, ArithBytes>> :
        d \in {<<>>, <<248>>}, c \in {<<>>, <<56>>} }

\* LDX #x; TXS; LDA #$55; loop: PHA; JMP loop
PushPrograms ==
    { <<{162}, StackTops, {154}, {169}, {85}, {72}, {76},
        {(CodeBase % 256) + 5}, {CodeBase \div 256}>> }

\* one of each instruction that is not a jump, branch, return or interrupt:
\* NOP; LDA #5; TAX; INX; PHA; SEC; ADC #3; PLA; CLC; SBC #1; SED; LDX #7;
\* TXS; STA $0300; LDA $0300
LengthPrograms ==
    { Exactly(<<234, 169, 5, 170, 232, 72, 56, 105, 3, 104, 24, 233, 1, 248,
                162, 7, 154, 141, 0, 3, 173, 0, 3>>) }

TestPrograms ==
    BranchPrograms \cup JumpPrograms \cup CallPrograms \cup ArithPrograms
      \cup LengthPrograms

\* the first n bytes in RAM are bytes of a program of shape t
Loaded(t, n) ==
    \A i \in 1..n : ArrayGet(cpu_ram, CodeBase + i - 1) \in t[i]

\* the byte the next fetch reads can be executed: the read panics or gives
\* one of the opcodes modelled
Fetchable(f) == f.bus.fault \/ f.ret \in KnownOpcodes

InitExec == Constructed /\ prog = "ram" /\ overflow_checks \in BOOLEAN

\* the next byte of one of the programs is written to RAM
LoadByte(programs) ==
    /\ run = "new"
    /\ \E t \in programs :
          /\ accesses < Len(t)
          /\ Loaded(t, accesses)
          /\ \E v \in t[accesses + 1] : DoCpuMemWrite(CodeBase + accesses, v)

\* a program written to RAM byte by byte, then reset and run; a reset and a
\* second run after the program has halted
NextExec ==
    \/ LoadByte(TestPrograms)
    \/ DoReset
    \/ steps < MaxRerunSteps /\ DoResetAgain
    \/ steps < MaxSteps /\ DoRunPoll
    \/ Fetchable(MemRead(TheBus, prog, cpu.program_counter)) /\ DoRunStep

SpecExec == InitExec /\ [][NextExec]_vars

\* the programs that push in a loop, written to RAM, then reset and run
NextStack ==
    \/ LoadByte(PushPrograms)
    \/ DoReset
    \/ steps < MaxPushSteps /\ DoRunPoll
    \/ Fetchable(MemRead(TheBus, prog, cpu.program_counter)) /\ DoRunStep

SpecStack == InitExec /\ [][NextStack]_vars

\* the programs that add and subtract, written to RAM, then reset and run
NextArith ==
    \/ LoadByte(ArithPrograms)
    \/ DoReset
    \/ steps < MaxSteps /\ DoRunPoll
    \/ Fetchable(MemRead(TheBus, prog, cpu.program_counter)) /\ DoRunStep

SpecArith == InitExec /\ [][NextArith]_vars

\* JMP (ptr) at CodeBase with ptr every byte of RAM page 0, of the page of
\* the program and of the last page of PRG ROM; JMP ($0203) with the
\* destination word in the two bytes after it; and LDX #0; TXS; LDA #3; PHA;
\* LDA #7; PHA; JMP ($01FF), and the same through the mirror $09FF
IndirectPrograms ==
    { <<{108}, Byte, {0, CodeBase \div 256, 255}>>,
      <<{108}, {(CodeBase % 256) + 3}, {CodeBase \div 256},
        {0, 1, 5, 255}, {2, 3, 10, 128}>>,
      Exactly(<<162, 0, 154, 169, 3, 72, 169, 7, 72, 108, 255>>) \o <<{1, 9}>> }

\* the programs that jump through a pointer, written to RAM, then reset and
\* run
NextIndirect ==
    \/ LoadByte(IndirectPrograms)
    \/ DoReset
    \/ steps < MaxSteps /\ DoRunPoll
    \/ Fetchable(MemRead(TheBus, prog, cpu.program_counter)) /\ DoRunStep

SpecIndirect == InitExec /\ [][NextIndirect]_vars

\* LDA #m; STA $0010; CLC or SEC; LDA #a; DCP $10
DcpPrograms ==
    { <<{169}, ArithBytes, {141}, {16}, {0}, {24, 56}, {169}, ArithBytes,
        {199}, {16}>> }

\* the programs that decrement and compare, written to RAM, then reset and
\* run
NextDcp ==
    \/ LoadByte(DcpPrograms)
    \/ DoReset
    \/ steps < MaxSteps /\ DoRunPoll
    \/ Fetchable(MemRead(TheBus, prog, cpu.program_counter)) /\ DoRunStep

SpecDcp == InitExec /\ [][NextDcp]_vars

(***************************************************************************)
(* Properties.                                                             *)
(***************************************************************************)
DotsPerFrame == DotsPerScanline * ScanlinesPerFrame

\* the PPU's position in the frame, in dots
PpuPos(p) == p.scanline * DotsPerScanline + p.cycles

\* the little-endian word the PRG ROM holds at addr
RomWord(pr, addr) == ReadPrgRom(pr, addr) + 256 * ReadPrgRom(pr, addr + 1)

\* the byte the stack page holds at stack pointer sp
StackByte(ram, sp) == ArrayGet(ram, STACK_START_ADDR + (sp % 256))

\* a status byte without its B and U bits
WithoutBreakBits(status) == Remove(Remove(status, BREAK), BREAK2)

\* C1: at the top of a run-loop iteration a pending NMI latch is consumed and
\* the NMI dispatched before the opcode fetch: PC (high, low) and the status
\* are pushed, PC is loaded from the vector at 0xFFFA and the latch is none
\* at the fetch; with no NMI pending the poll changes nothing.
C1_NmiDispatchedBeforeFetch ==
    [][(run = "top" /\ run' = "fetch") =>
         IF ppu.nmi_interrupt # None
         THEN /\ ppu'.nmi_interrupt = None
              /\ cpu'.program_counter = RomWord(prog, NMI.vec_addr)
              /\ cpu'.stack_pointer = (cpu.stack_pointer + 253) % 256
              /\ StackByte(cpu_ram', cpu.stack_pointer)
                     = cpu.program_counter \div 256
              /\ StackByte(cpu_ram', cpu.stack_pointer + 255)
                     = cpu.program_counter % 256
              /\ WithoutBreakBits(StackByte(cpu_ram', cpu.stack_pointer + 254))
                     = WithoutBreakBits(cpu.status)
         ELSE /\ cpu' = cpu
              /\ cpu_ram' = cpu_ram
              /\ ppu' = ppu
              /\ bus_cycles' = bus_cycles]_vars

\* C1 witness: the poll found the latch pending and the CPU stands at the
\* fetch of the NMI handler's first opcode.
C1_Witness ==
    /\ last.op = "run_poll"
    /\ last.ret # None
    /\ run = "fetch"
    /\ ppu.nmi_interrupt = None
    /\ cpu.program_counter = RomWord(prog, NMI.vec_addr)

\* C2: with every Bus::tick call at most 85 cycles, the frame callback has
\* run exactly floor(3 * N / (341 * 262)) times after N CPU cycles.
C2_FrameCadence ==
    frames = (3 * bus_cycles) \div DotsPerFrame

\* C2 witness: the second frame has just completed.
C2_Witness ==
    /\ last.op = "bus_tick"
    /\ frames = 2
    /\ 3 * bus_cycles < 2 * DotsPerFrame + 3 * last.arg

\* C3 (as claimed): every Bus::tick(c), c in 0..255, advances the PPU by
\* exactly 3 * c dots, adds c to Bus.cycles and does not overflow.
C3_TickAdvancesThreeDots ==
    [][last'.op = "bus_tick" =>
         /\ ~fault'
         /\ bus_cycles' = bus_cycles + last'.arg
         /\ PpuPos(ppu') = (PpuPos(ppu) + 3 * last'.arg) % DotsPerFrame]_vars

\* C4: in every reachable PPU state the scanline is in 0..261 and the dot in
\* the scanline is in 0..340.
C4_ScanlineAndDotInRange ==
    /\ ppu.scanline \in 0..(ScanlinesPerFrame - 1)
    /\ ppu.cycles \in 0..(DotsPerScanline - 1)

\* C4 witness: a tick of 255 dots has just crossed into scanline 261, the
\* last of the frame.
C4_Witness ==
    /\ last.op = "tick"
    /\ last.arg = 255
    /\ ppu.scanline = ScanlinesPerFrame - 1
    /\ ppu.cycles < last.arg

\* C5: the tick in which the scanline becomes 241 sets VBlank-started,
\* clears sprite-zero-hit, latches the NMI iff Control's NMI-enable is set
\* (otherwise leaves the latch as it was) and returns false.
C5_VBlankEntry ==
    [][(last'.op = "tick" /\ ppu.scanline = VBlankScanline - 1
            /\ ppu'.scanline = VBlankScanline) =>
         /\ has_vblank_started(ppu'.status_register)
         /\ ~Contains(ppu'.status_register, SPRITE_ZERO_HIT)
         /\ ppu'.nmi_interrupt =
               IF has_vblank_nmi_flag(ppu.ctrl_register)
               THEN Some(1) ELSE ppu.nmi_interrupt
         /\ last'.ret = FALSE]_vars

\* C5 witness: a tick has just entered scanline 241 with NMI enabled.
C5_Witness ==
    /\ last.op = "tick"
    /\ ppu.scanline = VBlankScanline
    /\ ppu.cycles < last.arg
    /\ has_vblank_nmi_flag(ppu.ctrl_register)
    /\ ppu.nmi_interrupt = Some(1)
    /\ has_vblank_started(ppu.status_register)

\* C6: a tick returns true exactly when it takes the scanline to 262; that
\* tick wraps the scanline to 0, clears the NMI latch and clears the
\* sprite-zero-hit and VBlank-started flags.
C6_FrameWrap ==
    [][last'.op = "tick" =>
         /\ last'.ret =
               (/\ ppu.scanline = ScanlinesPerFrame - 1
                /\ ppu.cycles + last'.arg >= DotsPerScanline)
         /\ last'.ret =>
               /\ ppu'.scanline = 0
               /\ ppu'.nmi_interrupt = None
               /\ ~Contains(ppu'.status_register, SPRITE_ZERO_HIT)
               /\ ~has_vblank_started(ppu'.status_register)]_vars

\* C6 witness: a tick has just returned true.
C6_Witness ==
    /\ last.op = "tick"
    /\ last.ret = TRUE
    /\ ppu.scanline = 0
    /\ has_vblank_nmi_flag(ppu.ctrl_register)

\* C7: a Control write latches the NMI iff NMI-enable was 0 before, is 1
\* after and VBlank-started is set; otherwise the latch is unchanged.
C7_ControlWriteNmi ==
    [][last'.op = "write_control" =>
         ppu'.nmi_interrupt =
            IF /\ ~has_vblank_nmi_flag(ppu.ctrl_register)
               /\ has_vblank_nmi_flag(last'.arg)
               /\ has_vblank_started(ppu.status_register)
            THEN Some(1) ELSE ppu.nmi_interrupt]_vars

\* C7 witness: NMI-enable was written during vertical blank and the latch is
\* pending.
C7_Witness ==
    /\ last.op = "write_control"
    /\ has_vblank_nmi_flag(last.arg)
    /\ has_vblank_started(ppu.status_register)
    /\ ppu.scanline > VBlankScanline
    /\ ppu.nmi_interrupt = Some(1)

\* C8: a Status read returns the flags as they were, clears VBlank-started,
\* resets both write-twice latches and leaves the other status bits, the NMI
\* latch, the VRAM address, the scanline and the dot unchanged.
C8_StatusRead ==
    [][last'.op = "read_status" =>
         /\ last'.ret = ppu.status_register
         /\ ~has_vblank_started(ppu'.status_register)
         /\ ppu'.status_register = Remove(ppu.status_register, VBLANK_STARTED)
         /\ ppu'.addr_register.hi_ptr = TRUE
         /\ ppu'.scroll_register.latch = FALSE
         /\ ppu'.addr_register.value = ppu.addr_register.value
         /\ ppu'.nmi_interrupt = ppu.nmi_interrupt
         /\ ppu'.scanline = ppu.scanline
         /\ ppu'.cycles = ppu.cycles]_vars

\* C8 witness: a Status read during vertical blank returned the VBlank bit
\* with the NMI latch pending and an Address write half done.
C8_Witness ==
    /\ last.op = "read_status"
    /\ Contains(last.ret, VBLANK_STARTED)
    /\ ~has_vblank_started(ppu.status_register)
    /\ ppu.nmi_interrupt = Some(1)
    /\ ppu.addr_register.value = <<33, 0>>
    /\ ppu.addr_register.hi_ptr = TRUE
    /\ ppu.scanline >= VBlankScanline

\* C9: after power-on or a Status read, Address writes alternate high byte,
\* low byte, high byte, ...: an even-numbered write (counting from 0) sets
\* the high byte (kept within the 14-bit address) and leaves the low byte, an
\* odd-numbered write sets the low byte and leaves the high byte.
C9_AddressWritesAlternate ==
    [][last'.op = "write_address" =>
         IF addr_parity = 0
         THEN ppu'.addr_register.value =
                 <<BitAnd(last'.arg, 63), ppu.addr_register.value[2]>>
         ELSE ppu'.addr_register.value =
                 <<ppu.addr_register.value[1], last'.arg>>]_vars

\* C9 witness: the first Address write after a Status read has set the high
\* byte and left a low byte written earlier.
C9_Witness ==
    /\ last.op = "write_address"
    /\ hist = "read_address"
    /\ ppu.addr_register.value = <<33, 255>>
    /\ ppu.addr_register.hi_ptr = FALSE

\* C10 (as claimed): Address and Scroll share one toggle: after a Status
\* read, one Scroll write makes the next Address write a low-byte write, and
\* one Address write makes the next Scroll write set the Y scroll.
C10_SharedToggle ==
    [][/\ (last'.op = "write_address" /\ hist = "read_scroll") =>
             ppu'.addr_register.value =
                 <<ppu.addr_register.value[1], last'.arg>>
       /\ (last'.op = "write_scroll" /\ hist = "read_address") =>
             /\ ppu'.scroll_register.scroll_y = last'.arg
             /\ ppu'.scroll_register.scroll_x
                    = ppu.scroll_register.scroll_x]_vars

\* the VRAM address the Address register holds
VramAddress(p) == get_address(p.addr_register)

\* the byte PPU address a (pattern table or nametable) denotes
DataByteAt(p, a) ==
    IF a <= 8191 THEN ChrRomAt(a)
    ELSE ArrayGet(p.vram, mirror_vram_address(p, a))

\* C11: in every reachable PPU state the VRAM address is at most 0x3FFF, and
\* an increment of it by 1 or by 32 yields (address + increment) mod 0x4000.
C11_AddressWithin14Bits ==
    /\ VramAddress(ppu) <= 16383
    /\ \A inc \in {1, 32} :
           get_address(AddressIncrement(ppu.addr_register, inc))
               = (VramAddress(ppu) + inc) % 16384

\* C11 witness: 0xFF written as high and as low byte has left the address
\* at 0x3FFF, from where either increment wraps.
C11_Witness ==
    /\ last.op = "write_address"
    /\ last.arg = 255
    /\ ppu.addr_register.hi_ptr
    /\ VramAddress(ppu) = 16383

PaletteIndex(a) == IF a \in PaletteAliases THEN a - 16 - 16128 ELSE a - 16128

\* C13 (as claimed): a PPUDATA read at any address in 0x3F00-0x3FFF returns
\* a palette byte directly, not the read buffer, and does not fault.
C13_PaletteReadDirect ==
    [][(last'.op = "read_data" /\ last'.arg >= 16128) =>
         /\ ~fault'
         /\ \E i \in 0..(PaletteLen - 1) :
                last'.ret = ArrayGet(ppu.palette_table, i)
         /\ ppu'.internal_data_buffer = ppu.internal_data_buffer]_vars

\* the PPU with its VRAM address set to a
AtAddress(p, a) == [p EXCEPT !.addr_register = AddressSet(@, a)]

\* what a PPUDATA access has done with address a: a write of v has stored v
\* in the cell a denotes, a read has fetched from it
AccessUsed(p, p2, op, a, v) ==
    IF op = "write_data"
    THEN CASE a <= 8191 -> p2.vram = p.vram /\ p2.palette_table = p.palette_table
           [] a \in 8192..12287 ->
                  ArrayGet(p2.vram, mirror_vram_address(p, a)) = v
           [] OTHER -> ArrayGet(p2.palette_table, PaletteIndex(a)) = v
    ELSE CASE a <= 12287 -> p2.internal_data_buffer = DataByteAt(p, a)
           [] OTHER -> v = ArrayGet(p.palette_table, PaletteIndex(a))

\* C14: every PPUDATA access that completes advances the VRAM address by 1
\* when Control bit 2 is clear and by 32 when it is set, modulo 0x4000, and
\* reads or writes the cell of the address held before the increment.
C14_AccessIncrements ==
    [][(last'.op \in {"read_data", "write_data"} /\ ~fault') =>
         /\ VramAddress(ppu') =
               (VramAddress(ppu)
                  + (IF (ppu.ctrl_register \div 4) % 2 = 1 THEN 32 ELSE 1)) % 16384
         /\ AccessUsed(ppu, ppu', last'.op, VramAddress(ppu), last'.ret)]_vars

\* C14 witness: with Control bit 2 set a write at 0x2000 has stored its byte
\* there and left the address at 0x2020.
C14_Witness ==
    /\ last.op = "write_data"
    /\ last.arg = 8192
    /\ (ppu.ctrl_register \div 4) % 2 = 1
    /\ ArrayGet(ppu.vram, 0) = last.ret
    /\ VramAddress(ppu) = 8224

\* the byte read back from address a: a PPUDATA read at a fills the read
\* buffer, and the following read (made at address 0) returns it
ReadBackAt(p, a) ==
    PpuReadData(AtAddress(PpuReadData(AtAddress(p, a)).ppu, 0)).ret

\* the PPU after a PPUDATA write of v at address a
WriteAt(p, a, v) == PpuWriteData(AtAddress(p, a), v).ppu

\* addresses a and b denote one VRAM cell: the same index, and a byte written
\* at either is read back at the other
SameCell(p, a, b) ==
    /\ mirror_vram_address(p, a) = mirror_vram_address(p, b)
    /\ \A v \in DataBytes :
          /\ ReadBackAt(WriteAt(p, a, v), b) = v
          /\ ReadBackAt(WriteAt(p, b, v), a) = v

\* the nametable pairing at offset k of PPU p
PairedAt(p, k) ==
    /\ p.mirroring_mode = "Horizontal" =>
          /\ SameCell(p, 8192 + k, 9216 + k)
          /\ SameCell(p, 10240 + k, 11264 + k)
          /\ mirror_vram_address(p, 8192 + k) # mirror_vram_address(p, 10240 + k)
    /\ p.mirroring_mode = "Vertical" =>
          /\ SameCell(p, 8192 + k, 10240 + k)
          /\ SameCell(p, 9216 + k, 11264 + k)
          /\ mirror_vram_address(p, 8192 + k) # mirror_vram_address(p, 9216 + k)

\* the other nametable address of the pair a belongs to
Partner(p, a) ==
    IF p.mirroring_mode = "Horizontal"
    THEN (IF (a \div 1024) % 2 = 0 THEN a + 1024 ELSE a - 1024)
    ELSE (IF (a \div 2048) % 2 = 0 THEN a + 2048 ELSE a - 2048)

\* C15: under Horizontal mirroring 0x2000+k and 0x2400+k are one VRAM cell,
\* 0x2800+k and 0x2C00+k another; under Vertical mirroring 0x2000+k and
\* 0x2800+k are one cell, 0x2400+k and 0x2C00+k another; a byte written
\* through PPUDATA at one address of a pair is read back through the other.
C15_NametableMirroring ==
    /\ last.op = "new" => \A k \in 0..1023 : PairedAt(ppu, k)
    /\ (/\ last.op = "write_data"
        /\ last.arg \in 8192..12287
        /\ ppu.mirroring_mode \in {"Horizontal", "Vertical"}) =>
          /\ ~fault
          /\ ReadBackAt(ppu, Partner(ppu, last.arg)) = last.ret

\* C15 witness: under Horizontal mirroring a byte written at 0x2000 has been
\* fetched by a read at 0x2400.
C15_Witness ==
    /\ ppu.mirroring_mode = "Horizontal"
    /\ last.op = "read_data"
    /\ last.arg = 9216
    /\ ArrayGet(ppu.vram, 0) = 102
    /\ ppu.internal_data_buffer = 102

\* the byte a PPUDATA read at palette address a returns
PaletteReadAt(p, a) == PpuReadData(AtAddress(p, a)).ret

\* C16: for each pair (0x3F10, 0x3F00), (0x3F14, 0x3F04), (0x3F18, 0x3F08),
\* (0x3F1C, 0x3F0C) both addresses always read the same value, and a write
\* at either is observed by a read at the other (a write made to the fresh
\* PPU or after any PPUDATA write).
C16_PaletteAliases ==
    \A a \in {16128, 16132, 16136, 16140} :
       /\ PaletteReadAt(ppu, a) = PaletteReadAt(ppu, a + 16)
       /\ last.op \in {"new", "write_data"} =>
             \A v \in DataBytes :
                /\ PaletteReadAt(WriteAt(ppu, a + 16, v), a) = v
                /\ PaletteReadAt(WriteAt(ppu, a, v), a + 16) = v

\* C16 witness: a write at 0x3F10 has stored its byte in palette entry 0,
\* which 0x3F00 reads.
C16_Witness ==
    /\ last.op = "write_data"
    /\ last.arg = 16144
    /\ ArrayGet(ppu.palette_table, 0) = 102
    /\ PaletteReadAt(ppu, 16128) = 102

\* the DMA page d can be read: none of its 256 addresses is a write-only
\* register (pages 0x20-0x3F are the PPU registers, page 0x40 holds 0x4014)
DmaPageReadable(d) == d \notin 32..64

\* what a completed OAM DMA of page d has done: the byte at (d << 8) + i is
\* at OAM[(a + i) mod 256] for the OAMADDR a held before, OAMADDR is a again,
\* and the Bus is otherwise as it was
DmaDone(d) ==
    /\ ~fault'
    /\ \A i \in 0..255 :
          ArrayGet(ppu'.oam_data_register, (ppu.oam_addr_register + i) % 256)
            = MemRead(TheBus, prog, d * 256 + i).ret
    /\ ppu'.oam_addr_register = ppu.oam_addr_register
    /\ ppu' = [ppu EXCEPT !.oam_data_register = ppu'.oam_data_register]
    /\ cpu_ram' = cpu_ram

\* C17 (as claimed): a write of any d to 0x4014 with OAMADDR = a reads the
\* 256 bytes at (d << 8) + i and stores the i-th at OAM[(a + i) mod 256];
\* OAMADDR is a again afterwards and every OAM byte has been overwritten.
C17_OamDmaAnyPage ==
    [][(last'.op = "mem_write" /\ last'.arg = 16404) => DmaDone(last'.ret)]_vars

\* C17: a write of d to 0x4014 with OAMADDR = a, for a page d whose 256
\* addresses can all be read, reads the 256 bytes at (d << 8) + i and stores
\* the i-th at OAM[(a + i) mod 256]; OAMADDR is a again afterwards and every
\* OAM byte has been overwritten. For the other pages the write aborts.
C17_OamDma ==
    [][(last'.op = "mem_write" /\ last'.arg = 16404) =>
         IF DmaPageReadable(last'.ret)
         THEN DmaDone(last'.ret)
         ELSE fault' /\ ppu' = ppu /\ cpu_ram' = cpu_ram]_vars

\* C17 witness: with OAMADDR = 0xFE a DMA of page 0x80 has put the first PRG
\* bytes at OAM[0xFE], OAM[0xFF], OAM[0x00] and left OAMADDR at 0xFE.
C17_Witness ==
    /\ last = Call("mem_write", 16404, 128)
    /\ ~fault
    /\ ppu.oam_addr_register = 254
    /\ ArrayGet(ppu.oam_data_register, 254) = 169
    /\ ArrayGet(ppu.oam_data_register, 255) = 128
    /\ ArrayGet(ppu.oam_data_register, 0) = 141

\* RAM cells and bytes tried in every state; the fresh Bus is tried at every
\* cell
RamCells == {1, 2047}
RamBytes == {0, 85}

\* a write of v to a + k * 0x0800 is read back at every a + j * 0x0800 and
\* leaves every other cell as it was
RamMirrored(b, a, k, v) ==
    LET w == MemWrite(b, a + k * 2048, v)
    IN /\ ~w.fault
       /\ \A j \in 0..3 : MemRead(w, prog, a + j * 2048).ret = v
       /\ \A c \in (DOMAIN w.cpu_ram \cup DOMAIN b.cpu_ram \cup RamCells) \ {a} :
             /\ c \in 0..2047
             /\ ArrayGet(w.cpu_ram, c) = ArrayGet(b.cpu_ram, c)
             /\ MemRead(w, prog, c).ret = MemRead(b, prog, c).ret

\* C18: for every a in [0, 0x0800), every v and every k, j in 0..3, after a
\* bus write of v to a + k * 0x0800 a bus read of a + j * 0x0800 returns v,
\* and no RAM cell with a different (address & 0x07FF) has changed.
C18_RamMirroring ==
    ~fault =>
      \A a \in (IF last.op = "new" THEN 0..2047 ELSE RamCells) :
         \A k \in 0..3 : \A v \in RamBytes : RamMirrored(TheBus, a, k, v)

\* C18 witness: a byte written at 0x0001 has been read at 0x0801.
C18_Witness ==
    /\ last = Call("mem_read", 2049, 17)
    /\ ArrayGet(cpu_ram, 1) = 17
    /\ DOMAIN cpu_ram = {1}

\* mirrors of each of the eight PPU registers tried in every state; the
\* fresh Bus is tried at every mirror address
MirrorAddrs ==
    {8200 + r : r \in 0..7} \cup {10832 + r : r \in 0..7}
       \cup {16376 + r : r \in 0..7}
MirrorBytes == {0, 63, 128}

\* C19: for every a in [0x2008, 0x4000) a bus read or write at a has the same
\* result, the same side effects and the same fault behaviour as the same
\* access at a & 0x2007, that is at 0x2000 + a mod 8.
C19_RegisterMirroring ==
    ~fault =>
      \A a \in (IF last.op = "new" THEN 8200..16383 ELSE MirrorAddrs) :
         /\ MemRead(TheBus, prog, a) = MemRead(TheBus, prog, 8192 + (a % 8))
         /\ \A v \in MirrorBytes :
               MemWrite(TheBus, a, v) = MemWrite(TheBus, 8192 + (a % 8), v)

\* C19 witness: a read at 0x3FFA, a mirror of Status, has reset the address
\* latch that a write of 0x3F to PPUADDR had flipped.
C19_Witness ==
    /\ last.op = "mem_read"
    /\ last.arg = 16378
    /\ ~fault
    /\ ppu.addr_register.hi_ptr
    /\ get_address(ppu.addr_register) = 16128

\* the register an address in the PPU register range denotes
Folded(a) == IF a \in 8200..16383 THEN 8192 + (a % 8) ELSE a

\* a read of a write-only register, a write to Status or a write to PRG ROM
IllegalAccess(l) ==
    \/ l.op = "mem_read" /\ Folded(l.arg) \in {8192, 8193, 8195, 8197, 8198, 16404}
    \/ l.op = "mem_write" /\ (Folded(l.arg) = 8194 \/ l.arg \in 32768..65535)

\* C20: a bus read of a write-only register (0x2000, 0x2001, 0x2003, 0x2005,
\* 0x2006, 0x4014 and the mirrors), a bus write to Status (0x2002 and its
\* mirrors) and a bus write to 0x8000-0xFFFF abort, and change no state
\* before aborting.
C20_IllegalAccessFatal ==
    [][IllegalAccess(last') =>
         /\ fault'
         /\ ppu' = ppu
         /\ cpu_ram' = cpu_ram
         /\ bus_cycles' = bus_cycles
         /\ frames' = frames
         /\ cpu' = cpu]_vars

\* C20 witness: after a RAM write, a write to 0x3FFA, a mirror of Status, has
\* aborted with RAM as it was.
C20_Witness ==
    /\ last.op = "mem_write"
    /\ last.arg = 16378
    /\ fault
    /\ ArrayGet(cpu_ram, 1) = 17

\* unmapped addresses tried in every state; the fresh Bus is tried at every
\* unmapped address
UnmappedAddrs == {16384, 16403, 16405, 16406, 24576, 32767}

\* C21: for every address in 0x4000-0x7FFF other than 0x4014 a bus read
\* returns 0 and a bus write is dropped; neither changes work RAM, the PPU
\* (registers, VRAM, OAM, latches) or the cycle counter.
C21_UnmappedIgnored ==
    ~fault =>
      \A a \in (IF last.op = "new" THEN (16384..32767) \ {16404}
                ELSE UnmappedAddrs) :
         /\ MemRead(TheBus, prog, a) = [bus |-> TheBus, ret |-> 0]
         /\ \A v \in MirrorBytes : MemWrite(TheBus, a, v) = TheBus

\* C21 witness: after a RAM write, a write to 0x4016 has left RAM as it was.
C21_Witness ==
    /\ last = Call("mem_write", 16406, 1)
    /\ ~fault
    /\ ArrayGet(cpu_ram, 1) = 17
    /\ DOMAIN cpu_ram = {1}

\* the word at addr, low byte first, as two reads through the bus give it
WordAt(addr) ==
    MemRead(TheBus, prog, addr).ret + 256 * MemRead(TheBus, prog, addr + 1).ret

\* C22: a reset, from the state after construction or after a program has
\* run and changed the registers, flags and stack pointer, leaves A = X = Y
\* = 0, P = 0b00100100, S = 0xFD and PC = the little-endian word read through
\* the bus at 0xFFFC/0xFFFD, and changes neither the RAM nor the PPU.
C22_Reset ==
    [][last'.op = "reset" =>
         /\ cpu' = [register_a |-> 0, register_x |-> 0, register_y |-> 0,
                    status |-> 36, stack_pointer |-> 253,
                    program_counter |-> WordAt(65532)]
         /\ cpu_ram' = cpu_ram
         /\ ppu' = ppu]_vars

\* reset after LDX #1; TXS; JSR sub; RTS; BRK has run: X and S were 1, the
\* Z and N flags followed X, the stack page holds the return address
C22_Witness ==
    /\ last.op = "reset" /\ last.arg = 1 /\ ~fault /\ steps = 5
    /\ ArrayGet(cpu_ram, CodeBase) = 162 /\ ArrayGet(cpu_ram, CodeBase + 1) = 1
    /\ ArrayGet(cpu_ram, 257) = 2 /\ ArrayGet(cpu_ram, 256) = 5
    /\ cpu.stack_pointer = 253 /\ cpu.register_x = 0
    /\ cpu.program_counter = CodeBase

\* the opcode byte at the program counter
OpcodeAtPc == MemRead(TheBus, prog, cpu.program_counter).ret

\* the opcodes modelled that are no jump, branch, return or interrupt
LinearOpcodes == KnownOpcodes \ (BranchOpcodes \cup {0, 32, 64, 76, 96})

\* C23: a loop iteration that executes an opcode o that is no jump, branch,
\* return or interrupt, with its opcode byte at address p, leaves the
\* program counter at p + length(o).
C23_LengthProgression ==
    [][(run = "fetch" /\ last'.op = "run_step" /\ ~fault'
          /\ OpcodeAtPc \in LinearOpcodes)
        => cpu'.program_counter = cpu.program_counter + OpLen(OpcodeAtPc)]_vars

\* the three-byte LDA $0300 at the end of the program of one instruction of
\* each kind has run
C23_Witness ==
    /\ last.op = "run_step" /\ last.arg = CodeBase + 20 /\ ~fault
    /\ ArrayGet(cpu_ram, CodeBase + 20) = 173
    /\ cpu.program_counter = CodeBase + 23
    /\ cpu.register_a = 3 /\ ArrayGet(cpu_ram, 768) = 3

\* a byte as a signed 8-bit displacement
Signed(b) == IF b >= 128 THEN b - 256 ELSE b

\* the byte after the opcode at the program counter
OperandAtPc == MemRead(TheBus, prog, cpu.program_counter + 1).ret

\* C24: a loop iteration that executes a relative branch, with PC the
\* address of its displacement byte, leaves the program counter at
\* (PC + 1 + disp) mod 2^16 when the condition holds, for every signed
\* displacement disp, and at PC + 1 when it does not.
C24_BranchTarget ==
    [][(run = "fetch" /\ last'.op = "run_step" /\ ~fault'
          /\ OpcodeAtPc \in BranchOpcodes)
        => cpu'.program_counter =
             IF BranchCondition(cpu.status, OpcodeAtPc)
             THEN (cpu.program_counter + 1 + 1 + Signed(OperandAtPc)) % 65536
             ELSE cpu.program_counter + 1 + 1]_vars

\* a JSR whose opcode byte is at the program counter: the word p + 2 is
\* pushed, high byte first, and control goes to the operand word
JsrStep ==
    /\ cpu'.program_counter = WordAt(cpu.program_counter + 1)
    /\ cpu'.stack_pointer = (cpu.stack_pointer + 254) % 256
    /\ StackByte(cpu_ram', cpu.stack_pointer) = (cpu.program_counter + 2) \div 256
    /\ StackByte(cpu_ram', cpu.stack_pointer + 255) = (cpu.program_counter + 2) % 256

\* an RTS: the low byte, then the high byte are popped and control goes to
\* the address after the word
RtsStep ==
    /\ cpu'.program_counter =
         StackByte(cpu_ram, cpu.stack_pointer + 1)
           + 256 * StackByte(cpu_ram, cpu.stack_pointer + 2) + 1
    /\ cpu'.stack_pointer = (cpu.stack_pointer + 2) % 256
    /\ cpu_ram' = cpu_ram

\* the RTS of the subroutine called by the JSR at CodeBase + 3 has run
Returned ==
    /\ last.op = "run_step" /\ ~fault
    /\ ArrayGet(cpu_ram, CodeBase + 3) = 32
    /\ ArrayGet(cpu_ram, last.arg) = 96

\* C25: a JSR whose opcode byte is at p pushes the word p + 2 (high byte
\* first, then low) and transfers control to its operand word; the RTS of
\* the subroutine pops low then high, resumes at p + 3 and leaves the stack
\* pointer at its value before the JSR (the X loaded into it).
C25_CallReturn ==
    [][(run = "fetch" /\ last'.op = "run_step" /\ ~fault')
        => /\ OpcodeAtPc = 32 => JsrStep
           /\ OpcodeAtPc = 96 => RtsStep
           /\ Returned' =>
                /\ cpu'.program_counter = CodeBase + 3 + 3
                /\ cpu'.stack_pointer = ArrayGet(cpu_ram, CodeBase + 1)]_vars

\* C26: the dispatch of an NMI pushes the high byte of the program counter,
\* then its low byte, then a copy of the status in which B (bit 4) is clear
\* and U (bit 5) is set; it sets the I flag in the status, ticks the bus by 2
\* CPU cycles and loads the program counter from the word at 0xFFFA; the
\* stack pointer decreases by 3.
C26_NmiDispatch ==
    [][(run = "top" /\ run' = "fetch" /\ ppu.nmi_interrupt # None) =>
         /\ StackByte(cpu_ram', cpu.stack_pointer) = cpu.program_counter \div 256
         /\ StackByte(cpu_ram', cpu.stack_pointer + 255)
                = cpu.program_counter % 256
         /\ StackByte(cpu_ram', cpu.stack_pointer + 254)
                = Insert(Remove(cpu.status, BREAK), BREAK2)
         /\ cpu'.status = Insert(cpu.status, INTERRUPT_DISABLE)
         /\ bus_cycles' = bus_cycles + 2
         /\ cpu'.program_counter = RomWord(prog, 65530)
         /\ cpu'.stack_pointer = (cpu.stack_pointer + 253) % 256]_vars

\* the stack pointer the push loop starts from: the operand of its LDX
PushStart == ArrayGet(cpu_ram, CodeBase + 1)

\* the PHA of the push loop has just run for the k-th time (three
\* instructions before the loop, two iterations for each turn of it)
PushesDone(k) ==
    /\ last.op = "run_step" /\ last.arg = CodeBase + 5 /\ ~fault
    /\ \E t \in PushPrograms : Loaded(t, Len(t))
    /\ steps = 2 * k + 2

\* C27 as stated: starting from any stack pointer S, after 257 pushes the
\* stack pointer is S again and the slot originally at S + 1 is overwritten.
C27_StackWrap257 ==
    PushesDone(257) =>
        /\ cpu.stack_pointer = PushStart
        /\ StackByte(cpu_ram, PushStart + 1) = 85

\* C27, amended: starting from any stack pointer S, k pushes leave the stack
\* pointer at (S - k) mod 256; 255 pushes leave the slot at S + 1 as it was,
\* the 256th overwrites it and leaves the stack pointer at S again.
C27_StackWrap ==
    \A k \in 1..((MaxPushSteps - 2) \div 2) :
        PushesDone(k) =>
            /\ cpu.stack_pointer = (PushStart + 256 * k - k) % 256
            /\ k = 255 => StackByte(cpu_ram, PushStart + 1) = 0
            /\ k = 256 => /\ cpu.stack_pointer = PushStart
                          /\ StackByte(cpu_ram, PushStart + 1) = 85

\* the 256th push from S = 0xFF has run: it wrote the slot at 0x0100
C27_Witness ==
    /\ PushesDone(256)
    /\ PushStart = 255 /\ cpu.stack_pointer = 255
    /\ ArrayGet(cpu_ram, 256) = 85

\* the status after an addition to A as the claim states it: C, Z, V and N
\* follow sum = A + M + C, the other flags stay
SumStatus(status, a, m, sum) ==
    SetFlag(
      SetFlag(
        SetFlag(
          SetFlag(status, CARRY, sum > 255),
          ZERO, sum % 256 = 0),
        OVERFLOW,
        BitAnd(BitAnd(BitXor(a, sum % 256), BitXor(m, sum % 256)), 128) # 0),
      NEGATIVE, sum % 256 >= 128)

\* the registers after adding m to A in machine mc, as the claim states it
SumCpu(mc, m, sum) ==
    [mc.cpu EXCEPT !.register_a = sum % 256,
                   !.status = SumStatus(mc.cpu.status, mc.cpu.register_a, m, sum)]

\* in machine mc, adding m and subtracting (m XOR 0xFF) give the registers
\* the claim states
DualOf(mc, m, added) ==
    /\ added = SubToRegisterA(mc, BitXor(m, 255)).cpu
    /\ added = SumCpu(mc, m, mc.cpu.register_a + m + (mc.cpu.status % 2))

Dual(mc, m) == DualOf(mc, m, AddToRegisterA(mc, m).cpu)

\* the machine with A = a and the status given
WithA(a, status) ==
    [cpu |-> [cpu EXCEPT !.register_a = a, !.status = status], bus |-> BusNew]

\* the operand M of the addition the instruction at the program counter
\* makes: the operand of an ADC, the complement of the operand of an SBC
AddendAtPc ==
    IF OpcodeAtPc = 105 THEN OperandAtPc ELSE BitXor(OperandAtPc, 255)

\* C28: for all 8-bit A and M and both carry-in values, ADC with operand M
\* and SBC with operand (M XOR 0xFF) produce the same accumulator and the
\* same C, Z, V and N flags: A' = (A + M + C) mod 256, C' = (sum > 0xFF),
\* V' = ((A xor A') and (M xor A') and 0x80) != 0; the D flag changes
\* nothing.  Checked on the operators for every A, M and C in a state after
\* construction, and on the ADC # and SBC # instructions wherever the
\* programs reach one.
C28_AdcSbcDuality ==
    /\ (last.op = "new" /\ overflow_checks) =>
         \A a \in Byte, m \in Byte, c \in {0, 1} : Dual(WithA(a, 36 + c), m)
    /\ (run = "fetch" /\ ~fault /\ OpcodeAtPc \in {105, 233}) =>
         /\ Dual(TheMachine, AddendAtPc)
         /\ [RunStep(TheMachine, prog).m.cpu EXCEPT
                !.program_counter = cpu.program_counter]
              = SumCpu(TheMachine, AddendAtPc,
                       cpu.register_a + AddendAtPc + (cpu.status % 2))

\* SED; SEC; LDA #$7F; ADC #$7F has run: A = 0xFF, with N and V set, C and Z
\* clear, D still set
C28_Witness ==
    /\ last.op = "run_step" /\ last.arg = CodeBase + 4 /\ ~fault
    /\ ArrayGet(cpu_ram, CodeBase) = 248 /\ ArrayGet(cpu_ram, CodeBase + 1) = 56
    /\ ArrayGet(cpu_ram, CodeBase + 4) = 105
    /\ ArrayGet(cpu_ram, CodeBase + 5) = 127
    /\ cpu.register_a = 255 /\ cpu.status = 236

\* C30: a loop iteration that executes JMP absolute (0x4C) with operand
\* word w leaves the program counter at exactly w, for every w, the address
\* of the JMP's own operand bytes included.
C30_JmpAbsolute ==
    [][(run = "fetch" /\ last'.op = "run_step" /\ ~fault' /\ OpcodeAtPc = 76)
        => cpu'.program_counter = WordAt(cpu.program_counter + 1)]_vars

\* a bad image: shorter than the 16-byte header, or with a wrong signature,
\* or with iNES 2.0 declared, or shorter than the header, trainer, PRG ROM
\* and CHR ROM it declares
BadImage(raw) ==
    \/ RawLen(raw) < 16
    \/ SubSeq(raw.header, 1, 4) # NES_FILE_SIGNATURE
    \/ (RawAt(raw, 7) \div 4) % 4 # 0
    \/ RawLen(raw) < DeclaredLen(raw.header)

\* C29: the loader called on a bad image returns an error result and does
\* not abort the program.
C29_BadImageIsError ==
    (last.op = "rom_new" /\ BadImage(last.arg)) =>
        /\ last.ret.kind = "Err"
        /\ ~fault

\* the byte at addr, as a read through the bus gives it
ByteAt(addr) == MemRead(TheBus, prog, addr).ret

\* the pointer of a JMP (indirect) whose opcode byte is at the program
\* counter, and the address the high byte of its destination is at
PointerAtPc == WordAt(cpu.program_counter + 1)

PointerHigh(ptr) == IF ptr % 256 = 255 THEN ptr - 255 ELSE ptr + 1

\* C31: JMP indirect (0x6C) with pointer ptr takes the low byte of its
\* destination from ptr, and the high byte from ptr + 1 when the low byte
\* of ptr is not 0xFF and from ptr & 0xFF00 when it is: Cpu::jmp_indirect
\* sets the program counter to that word, and the loop iteration ends with
\* the program counter there (when the word is not the address of the
\* pointer itself, where the loop advances past an operand).
C31_JmpIndirect ==
    [][(run = "fetch" /\ last'.op = "run_step" /\ ~fault' /\ OpcodeAtPc = 108)
        => /\ JmpIndirect(AddPc(TheMachine, 1), prog).cpu.program_counter
                = ByteAt(PointerAtPc) + 256 * ByteAt(PointerHigh(PointerAtPc))
           /\ ByteAt(PointerAtPc) + 256 * ByteAt(PointerHigh(PointerAtPc))
                  # cpu.program_counter + 1
                => cpu'.program_counter
                     = ByteAt(PointerAtPc)
                         + 256 * ByteAt(PointerHigh(PointerAtPc))]_vars

\* JMP ($01FF) has run with 0x07 at 0x01FF, 0x03 at 0x0100 and 0xA2 at
\* 0x0200: the program counter is 0x0307
C31_Witness ==
    /\ last.op = "run_step" /\ last.arg = CodeBase + 9 /\ ~fault
    /\ ArrayGet(cpu_ram, CodeBase + 9) = 108
    /\ ArrayGet(cpu_ram, CodeBase + 10) = 255
    /\ ArrayGet(cpu_ram, CodeBase + 11) = 1
    /\ ArrayGet(cpu_ram, 511) = 7 /\ ArrayGet(cpu_ram, 256) = 3
    /\ ArrayGet(cpu_ram, 512) = 162
    /\ cpu.program_counter = 775

\* the cycles of the branch whose opcode byte is at the program counter:
\* the base count, one more when it is taken, and one more when the target
\* is in another page than the address after the branch
BranchCyclesAtPc ==
    OpCycles(OpcodeAtPc)
      + (IF ~BranchCondition(cpu.status, OpcodeAtPc) THEN 0
         ELSE IF (cpu.program_counter + 2) \div 256
                   = ((cpu.program_counter + 2 + Signed(OperandAtPc)) % 65536)
                       \div 256
         THEN 1 ELSE 2)

\* C32: a loop iteration that executes a relative branch adds to the bus's
\* cycle count the base count of the opcode when the branch is not taken,
\* base + 1 when it is taken to a target in the page of the address after
\* the branch, and base + 2 when it is taken to a target in another page;
\* the PPU advances by three times that number of dots.
C32_BranchCycles ==
    [][(run = "fetch" /\ last'.op = "run_step" /\ ~fault'
          /\ OpcodeAtPc \in BranchOpcodes)
        => /\ bus_cycles' = bus_cycles + BranchCyclesAtPc
           /\ frames' = frames
           /\ PpuPos(ppu') = PpuPos(ppu) + 3 * BranchCyclesAtPc]_vars

\* BPL -128 at CodeBase has been taken to 0x0182, in the page before the
\* one of the address after the branch: 4 cycles and 12 dots
C32_Witness ==
    /\ last.op = "run_step" /\ last.arg = CodeBase /\ ~fault
    /\ ArrayGet(cpu_ram, CodeBase) = 16
    /\ ArrayGet(cpu_ram, CodeBase + 1) = 128
    /\ cpu.program_counter = 386
    /\ bus_cycles = 4 /\ PpuPos(ppu) = 12

\* a machine with the program counter p, the stack pointer sp and the
\* status f, on a bus as constructed
WithRegisters(p, sp, f) ==
    [cpu |-> [CpuNew EXCEPT !.program_counter = p, !.stack_pointer = sp,
                            !.status = f],
     bus |-> BusNew]

\* the registers after an NMI dispatched from m and then an RTI
RoundTrip(m) == Rti(ManageInterrupt(m, prog, NMI), prog).cpu

\* the status bytes with U set and B clear
StatusBytes ==
    { f \in Byte : Contains(f, BREAK2) /\ ~Contains(f, BREAK) }

\* the three bytes the last NMI dispatch pushed are on the stack as it left
\* them, and the stack pointer is where it left it
StackAsDispatched(d) ==
    /\ cpu.stack_pointer = (d.cpu.stack_pointer + 253) % 256
    /\ \A k \in 0..2 :
          StackByte(cpu_ram, d.cpu.stack_pointer + 256 - k)
            = StackByte(d.cpu_ram, d.cpu.stack_pointer + 256 - k)

\* C33: when an NMI was dispatched from the registers PC = p, S = s, P = f
\* and an RTI executes with the stack as the dispatch left it, the loop
\* iteration of the RTI ends with PC = p, S = s and P = f (B clear, U set,
\* I as before the interrupt); and for every s, every status f with U set
\* and B clear and program counters p at both ends of the address space, the
\* dispatch followed by RTI gives back p, s and f.
C33_NmiRtiRoundTrip ==
    [][/\ (run = "fetch" /\ last'.op = "run_step" /\ ~fault'
            /\ OpcodeAtPc = 64 /\ interrupted # None
            /\ StackAsDispatched(interrupted[1]))
          => /\ cpu'.program_counter = interrupted[1].cpu.program_counter
             /\ cpu'.stack_pointer = interrupted[1].cpu.stack_pointer
             /\ cpu'.status = interrupted[1].cpu.status
             /\ Contains(cpu'.status, BREAK2) /\ ~Contains(cpu'.status, BREAK)
       /\ (last.op = "new" /\ overflow_checks /\ prog = "spin")
          => \A p \in {0, 32773, 65535}, sp \in Byte, f \in StatusBytes :
                RoundTrip(WithRegisters(p, sp, f))
                  = WithRegisters(p, sp, f).cpu]_vars

\* the RTI of the NMI handler LDA $2002; RTI has run: the dispatch was from
\* the JMP at 0x8005 with N set, the handler read the Status register, and
\* the registers are again the ones of the dispatch
C33_Witness ==
    /\ last.op = "run_step" /\ last.arg = 32779 /\ ~fault /\ prog = "spin"
    /\ interrupted # None
    /\ interrupted[1].cpu.program_counter = 32773
    /\ cpu.program_counter = 32773
    /\ cpu.stack_pointer = 253
    /\ ppu.status_register = 0
    /\ interrupted[1].cpu.status = 164
    /\ cpu.status = 164

\* a machine with the stack pointer sp, on a bus whose RAM holds 7 at 0x0100
\* and 9 at 0x0200
StackMachine(sp) ==
    [cpu |-> [CpuNew EXCEPT !.stack_pointer = sp],
     bus |-> [BusNew EXCEPT !.cpu_ram = (256 :> 7) @@ (512 :> 9)]]

\* the bytes and words pushed
PushedBytes == {1, 85, 128, 255}
PushedWords == {1, 255, 256, 4660, 65280, 65535}

\* push and pop from the stack pointer sp, as the claim states them
StackDiscipline(m, sp) ==
    /\ \A v \in PushedBytes :
          /\ StackPush(m, v).cpu.stack_pointer = (sp + 255) % 256
          /\ StackPush(m, v).bus.cpu_ram
                = ArraySet(m.bus.cpu_ram, 256 + sp, v)
          /\ StackPop(StackPush(m, v), prog).ret = v
          /\ StackPop(StackPush(m, v), prog).m.cpu.stack_pointer = sp
    /\ StackPop(m, prog).m.cpu.stack_pointer = (sp + 1) % 256
    /\ StackPop(m, prog).ret
          = ArrayGet(m.bus.cpu_ram, 256 + ((sp + 1) % 256))
    /\ StackPop(m, prog).m.bus.cpu_ram = m.bus.cpu_ram
    /\ \A w \in PushedWords :
          /\ StackPopU16(StackPushU16(m, w), prog).ret = w
          /\ StackPopU16(StackPushU16(m, w), prog).m.cpu.stack_pointer = sp
          /\ StackByte(StackPushU16(m, w).bus.cpu_ram, sp) = w \div 256
          /\ StackByte(StackPushU16(m, w).bus.cpu_ram, sp + 255) = w % 256

\* C34: for every S in 0..255, a push writes the byte at 0x0100 + S and
\* leaves the stack pointer at (S - 1) mod 256, a pop leaves it at
\* (S + 1) mod 256 and returns the byte at 0x0100 + that; a push followed by
\* a pop returns the byte pushed and restores S; no byte outside
\* 0x0100-0x01FF is written or read; a word pushed (high byte, then low) is
\* returned by a word pop; and the PHA and PLA instructions of the programs
\* push and pop so.
C34_StackDiscipline ==
    [][/\ (last.op = "new" /\ overflow_checks)
          => \A sp \in Byte : StackDiscipline(StackMachine(sp), sp)
       /\ (run = "fetch" /\ last'.op = "run_step" /\ ~fault')
          => /\ OpcodeAtPc = 72 =>
                  /\ cpu_ram' = ArraySet(cpu_ram, 256 + cpu.stack_pointer,
                                         cpu.register_a)
                  /\ cpu'.stack_pointer = (cpu.stack_pointer + 255) % 256
             /\ OpcodeAtPc = 104 =>
                  /\ cpu'.stack_pointer = (cpu.stack_pointer + 1) % 256
                  /\ cpu'.register_a = StackByte(cpu_ram, cpu'.stack_pointer)
                  /\ cpu_ram' = cpu_ram]_vars

\* LDX #$FF; TXS; JSR sub; BRK; sub: PHA; PLA; RTS: the PLA has run with the
\* stack pointer at 0xFC and has read the byte the PHA wrote at 0x01FD
C34_Witness ==
    /\ last.op = "run_step" /\ last.arg = CodeBase + 8 /\ ~fault
    /\ ArrayGet(cpu_ram, CodeBase + 1) = 255
    /\ ArrayGet(cpu_ram, CodeBase + 7) = 72
    /\ ArrayGet(cpu_ram, CodeBase + 8) = 104
    /\ cpu.stack_pointer = 253
    /\ ArrayGet(cpu_ram, 511) = 2 /\ ArrayGet(cpu_ram, 510) = 5

\* the phases of the two write-twice latches
AddressPhase(p) == p.addr_register.hi_ptr
ScrollPhase(p) == p.scroll_register.latch

\* C35: a PPU tick (the frame wrap included), a read of OAMDATA or PPUDATA,
\* and a write of Control, Mask, OAMADDR, OAMDATA or PPUDATA or an OAM DMA
\* leave the phases of the Address latch and of the Scroll latch as they
\* are; a write to Address or Scroll changes the phase of its own latch and
\* leaves the other; a Status read puts both in their first phase.
C35_LatchPhase ==
    [][~fault' =>
        /\ (last'.op = "bus_tick"
             \/ (last'.op = "mem_read" /\ Folded(last'.arg) # 8194)
             \/ (last'.op = "mem_write"
                   /\ Folded(last'.arg) \notin {8197, 8198}))
            => /\ AddressPhase(ppu') = AddressPhase(ppu)
               /\ ScrollPhase(ppu') = ScrollPhase(ppu)
        /\ (last'.op = "mem_write" /\ Folded(last'.arg) = 8198)
            => /\ AddressPhase(ppu') = ~AddressPhase(ppu)
               /\ ScrollPhase(ppu') = ScrollPhase(ppu)
        /\ (last'.op = "mem_write" /\ Folded(last'.arg) = 8197)
            => /\ ScrollPhase(ppu') = ~ScrollPhase(ppu)
               /\ AddressPhase(ppu') = AddressPhase(ppu)
        /\ (last'.op = "mem_read" /\ Folded(last'.arg) = 8194)
            => /\ AddressPhase(ppu') = TRUE
               /\ ScrollPhase(ppu') = FALSE]_vars

\* the frame has wrapped after one Address write and one Scroll write: both
\* latches are in their second phase
C35_Witness ==
    /\ last.op = "bus_tick" /\ ~fault
    /\ frames = 1 /\ ppu.scanline = 0
    /\ AddressPhase(ppu) = FALSE
    /\ ScrollPhase(ppu) = TRUE

\* a status byte has U (bit 5) set and B (bit 4) clear
StatusWellFormed(status) ==
    Contains(status, BREAK2) /\ ~Contains(status, BREAK)

\* a machine whose next pop reads the byte v, then the word 0x8005
PopsByte(sp, v) ==
    [cpu |-> [CpuNew EXCEPT !.stack_pointer = sp],
     bus |-> [BusNew EXCEPT !.cpu_ram =
                 ArraySet(ArraySet(ArraySet(ArrayNew,
                     STACK_START_ADDR + ((sp + 1) % 256), v),
                     STACK_START_ADDR + ((sp + 2) % 256), 5),
                     STACK_START_ADDR + ((sp + 3) % 256), 128)]]

\* C36: in every state of the CPU after a reset, through PLP and RTI with
\* any byte on the stack and through NMI dispatches, the status has U set
\* and B clear; PHP pushes the status with B set, and leaves the status as
\* it is; the byte an NMI dispatch pushes has B clear.
C36_StatusBits ==
    [][/\ StatusWellFormed(cpu'.status)
       /\ (run = "fetch" /\ last'.op = "run_step" /\ OpcodeAtPc = 8)
          => /\ StackByte(cpu_ram', cpu.stack_pointer)
                  = Insert(Insert(cpu.status, BREAK), BREAK2)
             /\ cpu'.status = cpu.status
       /\ (run = "top" /\ run' = "fetch" /\ ppu.nmi_interrupt # None)
          => ~Contains(StackByte(cpu_ram', cpu.stack_pointer + 254), BREAK)
       /\ (last.op = "new" /\ overflow_checks)
          => \A v \in Byte, sp \in {0, 253, 254, 255} :
                /\ StatusWellFormed(Plp(PopsByte(sp, v), prog).cpu.status)
                /\ StatusWellFormed(Rti(PopsByte(sp, v), prog).cpu.status)
                /\ Remove(Plp(PopsByte(sp, v), prog).cpu.status, BREAK2)
                     = Remove(Remove(v, BREAK), BREAK2)]_vars

\* the RTI of the NMI handler has pulled 0xDF (B set, U clear) from the
\* stack: the status is 0xEF
C36_Witness ==
    /\ last.op = "run_step" /\ last.arg = 32790 /\ ~fault /\ prog = "flags"
    /\ interrupted # None
    /\ StackByte(cpu_ram, cpu.stack_pointer + 254) = 223
    /\ cpu.status = 239

\* C37: in every state of the PPU, reached from power-on by ticks, NMI
\* polls and register accesses, when the VBlank-started flag of Status is
\* set or the NMI latch is pending the scanline is in 241..261; in the
\* scanlines 0..240 the flag is clear and no NMI is pending.
C37_VBlankWindow ==
    (has_vblank_started(ppu.status_register) \/ ppu.nmi_interrupt # None)
        => ppu.scanline \in VBlankScanline..(ScanlinesPerFrame - 1)

\* the last scanline of the frame, with the flag still set and an NMI
\* latched and not yet polled, NMI generation disabled since
C37_Witness ==
    /\ last.op = "tick" /\ ~fault
    /\ ppu.scanline = ScanlinesPerFrame - 1
    /\ has_vblank_started(ppu.status_register)
    /\ ppu.nmi_interrupt # None
    /\ ~has_vblank_nmi_flag(ppu.ctrl_register)

\* C38: for every PPU address in 0x2000-0x2FFF and each of the mirroring
\* tags Horizontal, Vertical and FourScreen, the VRAM index computed by
\* mirror_vram_address lies in 0..2047, and no PPUDATA read or write at an
\* address of that range indexes outside the 2 KiB VRAM array.
C38_VramIndexInRange ==
    (last.op \in {"read_data", "write_data"} /\ last.arg \in 8192..12287)
        => /\ mirror_vram_address(ppu, last.arg) \in 0..(VramLen - 1)
           /\ ~fault

\* the NMI latch is pending when the instruction at the program counter has
\* done its work, before the loop ticks the bus by the cycles of the opcode
LatchedByInstruction ==
    Dispatch(AddPc(TheMachine, 1), prog, OpcodeAtPc).bus.ppu.nmi_interrupt
        # None

\* C39: no NMI is lost. A latch that is pending at the top of a loop
\* iteration is dispatched there; and a latch that became pending during an
\* instruction, by the PPU entering scanline 241 with NMI enabled or by a
\* Control write that raises NMI-enable in vertical blank, is still pending
\* when the iteration ends, unless the run halts.
C39_NoNmiLost ==
    [][/\ (run = "top" /\ run' = "fetch" /\ ppu.nmi_interrupt # None)
          => /\ cpu'.program_counter = RomWord(prog, NMI.vec_addr)
             /\ ppu'.nmi_interrupt = None
       /\ (run = "fetch" /\ run' = "top" /\ ~fault'
             /\ OpcodeAtPc \in KnownOpcodes /\ LatchedByInstruction)
          => ppu'.nmi_interrupt # None]_vars

\* the byte DCP leaves at its zero-page operand: the byte there, less one
DecrementedAtPc == (ArrayGet(cpu_ram, OperandAtPc) + 255) % 256

\* C40: a loop iteration that executes DCP leaves at the operand address
\* M' = (M - 1) mod 256 and then, as CMP does, sets C when A >= M' and
\* clears it when A < M', and takes Z and N from (A - M') mod 256, whatever
\* C was before; the other flags and A stay.
C40_DcpIsDecThenCmp ==
    [][(run = "fetch" /\ last'.op = "run_step" /\ ~fault' /\ OpcodeAtPc = 199)
        => /\ ArrayGet(cpu_ram', OperandAtPc) = DecrementedAtPc
           /\ cpu'.register_a = cpu.register_a
           /\ cpu'.status =
                 UpdateZeroAndNegative(
                     SetFlag(cpu.status, CARRY,
                             cpu.register_a >= DecrementedAtPc),
                     (cpu.register_a + 256 - DecrementedAtPc) % 256)]_vars

====
